---- MODULE Spec2Model ----
(***************************************************************************)
(* Multi-page document capture of auto-snap-mcp (src/capture.py,           *)
(* src/server.py): the capture_document_pages tool driving                 *)
(* WindowsWindowManager.capture_multiple_pages ("win") or                  *)
(* WindowCapture.capture_multiple_pages ("x11") against one live window.   *)
(* The window manager, PowerShell, wmctrl, xdotool and the filesystem are  *)
(* the environment: each external call has a nondeterministic outcome.     *)
(***************************************************************************)
EXTENDS Integers, Sequences, FiniteSets, TLC

VARIABLES
    backend,                \* "win" (WindowsWindowManager) | "x11" (WindowCapture)
    powershell_available,   \* WindowsWindowManager.powershell_available
    page_count,             \* argument page_count
    delay_seconds,          \* argument delay_seconds
    win,                    \* the live window: [vis, fg, layered]
    win0,                   \* the window as it was when the call started
    pc,                     \* position inside the tool call
    page_num,               \* loop variable of capture_multiple_pages
    captured_files,         \* local captured_files
    stateBound,             \* 'original_window_state' in locals()
    prepChanged,            \* the preparation step changed the live window
    original_window_state,  \* local original_window_state
    error,                  \* the exception in flight ("none" when there is none)
    outcome,                \* "none" | "returned" | "raised" (of capture_multiple_pages)
    result,                 \* the list capture_multiple_pages returned
    raised,                 \* the exception capture_multiple_pages raised
    response,               \* the JSON object of the capture_document_pages tool
    log,                    \* the external calls made so far, in order
    navigation_key,         \* argument navigation_key
    host,                   \* what the host shows: [proc_version, system]
    environment,            \* CrossPlatformWindowManager.environment
    detected,               \* the values detect_environment() returned so far
    desktop,                \* the top-level windows of the desktop
    rect,                   \* the rectangle the platform reports for the window
    files,                  \* the image files written so far
    temp_windows_path,      \* local temp_windows_path of capture_window
    wsl_temp_path,          \* local wsl_temp_path of capture_window
    fs,                     \* the files on disk: path -> content
    operations,             \* argument operations of process_batch
    image_paths,            \* the images process_batch still has to visit
    results,                \* local results of process_batch
    dirs,                   \* the directories on disk
    fs0,                    \* the files on disk when the call started
    dirs0,                  \* the directories on disk when the call started
    pdf,                    \* the pages of the PDF document written last
    output_path,            \* argument output_path of images_to_pdf
    sort_files,             \* argument sort_files of images_to_pdf
    image_dir,              \* argument image_dir of process_batch
    capture_dir,            \* argument capture_dir of full_document_workflow
    process_images_flag,    \* argument process_images_flag
    processed_files,        \* local processed_files of full_document_workflow
    cleanup,                \* how the cleanup step went: "none" | "ok" | "error" | "skipped"
    tool,                   \* the tool endpoint that was invoked
    call_num,               \* the backend call the endpoint is at
    reply,                  \* what the endpoint returned: [keys, status]
    ses,                    \* the concurrent sessions: session -> its locals and window
    page_files              \* the page files on disk: path -> the session that wrote it

vars == <<backend, powershell_available, page_count, delay_seconds, win, win0, pc,
          page_num, captured_files, stateBound, prepChanged, original_window_state,
          error,
          outcome, result, raised, response, log, navigation_key,
          host, environment, detected, desktop,
          rect, files, temp_windows_path, wsl_temp_path,
          fs, operations, image_paths, results,
          dirs, fs0, dirs0, pdf, output_path, sort_files,
          image_dir, capture_dir, process_images_flag, processed_files, cleanup,
          tool, call_num, reply, ses, page_files>>

\* the state of concurrent capture sessions
sessionVars == <<ses, page_files>>

\* the state of a tool endpoint
toolVars == <<tool, call_num, reply>>

\* the state of image processing, PDF conversion, the workflow and the tools
docVars == <<fs, operations, image_paths, results, dirs, fs0, dirs0, pdf,
             output_path, sort_files, image_dir, capture_dir,
             process_images_flag, processed_files, cleanup, toolVars,
             sessionVars>>

\* what capture_multiple_pages and the capture_document_pages tool never assign
otherVars == <<navigation_key, host, environment, detected, desktop,
               rect, files, temp_windows_path, wsl_temp_path,
               fs, operations, image_paths, results,
               dirs, fs0, dirs0, pdf, output_path, sort_files,
               image_dir, capture_dir, process_images_flag, processed_files,
               cleanup, toolVars, sessionVars>>

(* ------------------------------ bounds -------------------------------- *)
MaxPages == 3

Backends == {"win", "x11"}
VisStates == {"normal", "minimized", "maximized", "hidden"}
PageCounts == (0 - 1) .. MaxPages
Delays == {0 - 1, 1}
OutputDir == "out"
\* the logical navigation keys the tool documents
NavigationKeys == {"Down", "Page_Down", "Right", "Up", "Left", "space", "Enter", "Tab"}

\* no path yet
NoPath == [root |-> "", sep |-> "", name |-> ""]

\* results = {'processed_files': [], 'enhanced_files': [], ...}
EmptyResults ==
    [processed_files |-> <<>>, enhanced_files |-> <<>>, ocr_results |-> <<>>,
     resized_files |-> <<>>, duplicates |-> {}]

\* no concurrent sessions are part of the run
NoSessions ==
    /\ ses = <<>>
    /\ page_files = <<>>

\* nothing returned yet
NoReply == [keys |-> {}, status |-> "none"]

\* no tool endpoint is part of the run
NoTool ==
    /\ tool = "none"
    /\ call_num = 0
    /\ reply = NoReply
    /\ NoSessions

\* no document workflow is part of the run
NoWorkflow ==
    /\ NoTool
    /\ image_dir = <<>>
    /\ capture_dir = <<>>
    /\ process_images_flag = FALSE
    /\ processed_files = <<>>
    /\ cleanup = "none"

\* no PDF conversion is part of the run
NoPdf ==
    /\ dirs = {}
    /\ fs0 = <<>>
    /\ dirs0 = {}
    /\ pdf = <<>>
    /\ output_path = [dir |-> <<>>, page |-> 0, suffix |-> <<>>, ext |-> ""]
    /\ sort_files = FALSE
    /\ NoWorkflow

\* no image processing is part of a capture
NoBatch ==
    /\ fs = <<>>
    /\ operations = {}
    /\ image_paths = <<>>
    /\ results = EmptyResults
    /\ NoPdf

\* what a single-window capture starts from: nothing written, no temp file
NoCapture ==
    /\ files = {}
    /\ temp_windows_path = NoPath
    /\ wsl_temp_path = NoPath
    /\ NoBatch

\* the window enumeration is not part of a capture session
NoManager ==
    /\ host = [proc_version |-> "absent", system |-> "Linux"]
    /\ environment = "none"
    /\ detected = <<>>
    /\ desktop = {}

(* ------------------------------ helpers ------------------------------- *)
\* one external call: who made it, what it was, for which page, how it went
Ev(by, op, page, arg) == [by |-> by, op |-> op, page |-> page, arg |-> arg]

EventsBy(by, op) == {i \in DOMAIN log : log[i].by = by /\ log[i].op = op}

Events(op) == {i \in DOMAIN log : log[i].op = op}

Count(op) == Cardinality(Events(op))

RECURSIVE Digits(_)
Digits(n) == IF n < 10 THEN <<n>> ELSE Digits(n \div 10) \o <<n % 10>>

\* f"{page_num:03d}": decimal digits, zero-padded on the left to width 3
Pad3(n) ==
    LET d == Digits(n)
    IN  IF Len(d) >= 3 THEN d
        ELSE IF Len(d) = 2 THEN <<0>> \o d
        ELSE <<0, 0>> \o d

PagePath_ZeroBased(dir, n) ==
    [dir |-> dir, stem |-> "page_", index |-> Pad3(n - 1), ext |-> ".png"]

\* os.path.join(output_dir, f"page_{page_num:03d}.png")
PagePath(dir, n) == [dir |-> dir, stem |-> "page_", index |-> Pad3(n), ext |-> ".png"]

(* ------------------------- the window manager ------------------------- *)
\* user32 ShowWindow: SW_RESTORE and SW_MAXIMIZE activate and display the
\* window, SW_MINIMIZE and SW_HIDE take it away and activate another one.
ShowWindow(w, cmd) ==
    CASE cmd = "SW_RESTORE"  -> [w EXCEPT !.vis = "normal", !.fg = TRUE]
      [] cmd = "SW_MAXIMIZE" -> [w EXCEPT !.vis = "maximized", !.fg = TRUE]
      [] cmd = "SW_MINIMIZE" -> [w EXCEPT !.vis = "minimized", !.fg = FALSE]
      [] cmd = "SW_HIDE"     -> [w EXCEPT !.vis = "hidden", !.fg = FALSE]

\* user32 BringWindowToTop + SetForegroundWindow
SetForegroundWindow(w) == [w EXCEPT !.fg = TRUE]

\* wmctrl -i -a: switch to the window's desktop, raise it and give it focus
WmctrlActivate(w) ==
    [w EXCEPT !.vis = IF w.vis \in {"minimized", "hidden"} THEN "normal" ELSE w.vis,
              !.fg = TRUE]

\* PowerShell prints a boolean as True / False
PSBool(b) == IF b THEN "True" ELSE "False"

\* str(x).lower() of a Python bool, then [bool]::Parse
PyBoolLower(b) == IF b THEN "true" ELSE "false"
BoolParse(s) == s = "true"

EmptyState ==
    [empty |-> TRUE, state_name |-> "", was_visible |-> FALSE, was_minimized |-> FALSE,
     was_maximized |-> FALSE, was_foreground |-> FALSE, was_prepared |-> FALSE]

(* ---------------- WindowsWindowManager: window state ------------------ *)
PrepareOutcomes ==
    {"ok", "invalid_window", "error", "timeout_none", "timeout_restored", "timeout_done"}

PrepareScript_AlwaysFocuses(w, upto) ==
    LET isVisible    == w.vis # "hidden"
        isMinimized  == w.vis = "minimized"
        isMaximized  == w.vis = "maximized"
        isForeground == w.fg
        stateName    == IF isMinimized THEN "minimized"
                        ELSE IF isMaximized THEN "maximized"
                        ELSE IF isVisible THEN "normal" ELSE "hidden"
        doRestore    == (isMinimized \/ ~isVisible) /\ upto \in {"restored", "done"}
        doFocus      == upto = "done"
        w1 == IF doRestore THEN ShowWindow(w, "SW_RESTORE") ELSE w
        w2 == IF doFocus THEN SetForegroundWindow(w1) ELSE w1
    IN  [win    |-> w2,
         calls  |-> (IF doRestore THEN <<Ev("prepare", "ShowWindow", 0, "SW_RESTORE")>>
                     ELSE <<>>)
                    \o (IF doFocus THEN <<Ev("prepare", "SetForegroundWindow", 0, "")>>
                        ELSE <<>>),
         output |-> <<stateName, PSBool(isVisible), PSBool(isMinimized),
                      PSBool(isMaximized), PSBool(isForeground), PSBool(TRUE)>>]

\* The PowerShell script of _detect_and_prepare_window_state, run up to `upto`
\* ("none": killed before any change, "restored": killed after the restore
\* block, "done": ran to its last line).
PrepareScript(w, upto) ==
    LET isVisible    == w.vis # "hidden"
        isMinimized  == w.vis = "minimized"
        isMaximized  == w.vis = "maximized"
        isForeground == w.fg
        stateName    == IF isMinimized THEN "minimized"
                        ELSE IF isMaximized THEN "maximized"
                        ELSE IF isVisible THEN "normal" ELSE "hidden"
        doRestore    == (isMinimized \/ ~isVisible) /\ upto \in {"restored", "done"}
        doFocus      == (~isForeground) /\ upto = "done"
        needsPreparation == (isMinimized \/ ~isVisible) \/ ~isForeground
        w1 == IF doRestore THEN ShowWindow(w, "SW_RESTORE") ELSE w
        w2 == IF doFocus THEN SetForegroundWindow(w1) ELSE w1
    IN  [win    |-> w2,
         calls  |-> (IF doRestore THEN <<Ev("prepare", "ShowWindow", 0, "SW_RESTORE")>>
                     ELSE <<>>)
                    \o (IF doFocus THEN <<Ev("prepare", "SetForegroundWindow", 0, "")>>
                        ELSE <<>>),
         output |-> <<stateName, PSBool(isVisible), PSBool(isMinimized),
                      PSBool(isMaximized), PSBool(isForeground),
                      PSBool(needsPreparation)>>]

\* output.split('|') parsed into state_info
ParseState(parts) ==
    IF Len(parts) >= 6
    THEN [empty |-> FALSE, state_name |-> parts[1], was_visible |-> parts[2] = "True",
          was_minimized |-> parts[3] = "True", was_maximized |-> parts[4] = "True",
          was_foreground |-> parts[5] = "True", was_prepared |-> parts[6] = "True"]
    ELSE EmptyState

\* _detect_and_prepare_window_state: [win, calls, state]; never raises
DetectAndPrepareWindowState(w, ps, out) ==
    LET run == <<Ev("prepare", "powershell", 0, out)>>
    IN  IF ~ps THEN [win |-> w, calls |-> <<>>, state |-> EmptyState]
        ELSE IF out = "ok"
        THEN LET r == PrepareScript(w, "done")
             IN  [win |-> r.win, calls |-> run \o r.calls,
                  state |-> ParseState(r.output)]
        ELSE IF out \in {"invalid_window", "error"}
        THEN [win |-> w, calls |-> run, state |-> EmptyState]
        ELSE LET r == PrepareScript(w, CASE out = "timeout_none" -> "none"
                                         [] out = "timeout_restored" -> "restored"
                                         [] out = "timeout_done" -> "done")
             IN  [win |-> r.win, calls |-> run \o r.calls, state |-> EmptyState]

RestoreOutcomes == {"ok", "error", "timeout_before", "timeout_after"}

RestoreCommand_NeverMinimizes(state) ==
    LET wasMaximized == BoolParse(PyBoolLower(state.was_maximized))
        wasVisible   == BoolParse(PyBoolLower(state.was_visible))
    IN  IF wasMaximized THEN "SW_MAXIMIZE"
        ELSE IF ~wasVisible THEN "SW_HIDE"
        ELSE "SW_RESTORE"

\* the ShowWindow command the restoration script picks
RestoreCommand(state) ==
    LET wasMinimized == BoolParse(PyBoolLower(state.was_minimized))
        wasMaximized == BoolParse(PyBoolLower(state.was_maximized))
        wasVisible   == BoolParse(PyBoolLower(state.was_visible))
    IN  IF wasMinimized THEN "SW_MINIMIZE"
        ELSE IF wasMaximized THEN "SW_MAXIMIZE"
        ELSE IF ~wasVisible THEN "SW_HIDE"
        ELSE "SW_RESTORE"

RestoreWindowState_Raises(w, ps, state, out) ==
    IF ~ps \/ state.empty THEN [ret |-> "false", calls |-> <<>>, win |-> w]
    ELSE IF ~state.was_prepared THEN [ret |-> "true", calls |-> <<>>, win |-> w]
    ELSE LET cmd  == RestoreCommand(state)
             run  == <<Ev("restore", "powershell", 0, out)>>
             show == <<Ev("restore", "ShowWindow", 0, cmd)>>
         IN  CASE out = "ok" ->
                    [ret |-> "true", calls |-> run \o show, win |-> ShowWindow(w, cmd)]
               [] out = "timeout_after" ->
                    [ret |-> "raise", calls |-> run \o show, win |-> ShowWindow(w, cmd)]
               [] OTHER ->
                    [ret |-> "raise", calls |-> run, win |-> w]

\* _restore_window_state: [ret, calls, win]; ret is "true" | "false"
RestoreWindowState(w, ps, state, out) ==
    IF ~ps \/ state.empty THEN [ret |-> "false", calls |-> <<>>, win |-> w]
    ELSE IF ~state.was_prepared THEN [ret |-> "true", calls |-> <<>>, win |-> w]
    ELSE LET cmd  == RestoreCommand(state)
             run  == <<Ev("restore", "powershell", 0, out)>>
             show == <<Ev("restore", "ShowWindow", 0, cmd)>>
         IN  CASE out = "ok" ->
                    [ret |-> "true", calls |-> run \o show, win |-> ShowWindow(w, cmd)]
               [] out = "timeout_after" ->
                    [ret |-> "false", calls |-> run \o show, win |-> ShowWindow(w, cmd)]
               [] OTHER ->
                    [ret |-> "false", calls |-> run, win |-> w]

(* ---------------- WindowsWindowManager: capture and keys -------------- *)
CaptureOutcomes ==
    {"ok", "error_early", "error_render", "timeout_early", "timeout_restored",
     "copy_failed"}

\* WindowsWindowManager.capture_window: [ok, calls, win]; ok = FALSE is a raise
Win_CaptureWindow(w, ps, page, out) ==
    IF ~ps THEN [ok |-> FALSE, calls |-> <<>>, win |-> w]
    ELSE IF w.vis # "minimized" \/ out \in {"error_early", "timeout_early"}
    THEN [ok |-> out = "ok", calls |-> <<>>, win |-> w]
    ELSE IF out = "timeout_restored"
    THEN [ok |-> FALSE,
          calls |-> <<Ev("capture", "ShowWindow", page, "SW_RESTORE")>>,
          win |-> [ShowWindow(w, "SW_RESTORE") EXCEPT !.layered = TRUE]]
    ELSE [ok |-> out = "ok",
          calls |-> <<Ev("capture", "ShowWindow", page, "SW_RESTORE"),
                      Ev("capture", "ShowWindow", page, "SW_MINIMIZE")>>,
          win |-> ShowWindow(ShowWindow(w, "SW_RESTORE"), "SW_MINIMIZE")]

KeyOutcomes == {"ok", "error", "timeout"}

\* WindowsWindowManager._send_key_to_window: "True" | "False"; never raises
Win_SendKeyToWindow(ps, out) ==
    IF ~ps THEN "False" ELSE IF out = "ok" THEN "True" ELSE "False"

\* key_mapping.get(navigation_key, navigation_key): the SendKeys spelling
KeyMapping(key) ==
    CASE key = "Down"      -> "{DOWN}"
      [] key = "Page_Down" -> "{PGDN}"
      [] key = "Right"     -> "{RIGHT}"
      [] key = "Up"        -> "{UP}"
      [] key = "Left"      -> "{LEFT}"
      [] key = "space"     -> " "
      [] key = "Enter"     -> "{ENTER}"
      [] key = "Tab"       -> "{TAB}"
      [] OTHER             -> key

\* the switch of the key script: the virtual key posted for a SendKeys string
VirtualKey(sendkeys) ==
    CASE sendkeys = "{DOWN}"  -> "VK_DOWN"
      [] sendkeys = "{PGDN}"  -> "VK_NEXT"
      [] sendkeys = "{RIGHT}" -> "VK_RIGHT"
      [] sendkeys = "{UP}"    -> "VK_UP"
      [] sendkeys = "{LEFT}"  -> "VK_LEFT"
      [] sendkeys = " "       -> "VK_SPACE"
      [] OTHER                -> "VK_NEXT"

\* PostMessage(WM_KEYDOWN / WM_KEYUP) of the key script, when it gets that far
Win_PostMessage(ps, sendkeys, page, out) ==
    IF ps /\ out = "ok"
    THEN <<Ev("send_key", "PostMessage", page, VirtualKey(sendkeys))>>
    ELSE <<>>

(* --------- WindowsWindowManager.capture_multiple_pages ---------------- *)
\* where the for loop goes when it is about to bind page_num to n
LoopPc_NavigatesFirst(n) == IF n <= page_count THEN "navigate" ELSE "finish"

LoopPc(n) == IF n <= page_count THEN "capture" ELSE "finish"

NavigationDue_AfterEveryPage(n) == n <= page_count

\* "Navigate to next page (except for last page)": if page_num < page_count
NavigationDue(n) == n < page_count

\* the exception handling of the function body: everything lands in `except`
Throw(e) == /\ error' = e
            /\ pc' = "except"

\* os.makedirs(output_dir, exist_ok=True)
Win_MakeDirs ==
    /\ pc = "start"
    /\ backend = "win"
    /\ \E ok \in BOOLEAN :
         IF ok
         THEN /\ pc' = "prepare"
              /\ log' = Append(log, Ev("session", "makedirs", 0, "ok"))
              /\ UNCHANGED error
         ELSE /\ Throw("OSError")
              /\ log' = Append(log, Ev("session", "makedirs", 0, "fail"))
    /\ UNCHANGED <<otherVars, backend, powershell_available, page_count,
                   delay_seconds, win, win0,
                   page_num, captured_files, stateBound, prepChanged,
                   original_window_state, outcome, result, raised, response>>

\* original_window_state = self._detect_and_prepare_window_state(window_id)
\* captured_files = []; the loop starts
Win_DetectAndPrepare ==
    /\ pc = "prepare"
    /\ backend = "win"
    /\ \E out \in PrepareOutcomes :
         LET r == DetectAndPrepareWindowState(win, powershell_available, out)
         IN  /\ win' = r.win
             /\ original_window_state' = r.state
             /\ prepChanged' = (r.win # win)
             /\ log' = log \o <<Ev("session", "prepare", 0,
                                   IF r.state.empty THEN "empty" ELSE "state")>>
                           \o r.calls
    /\ stateBound' = TRUE
    /\ captured_files' = <<>>
    /\ page_num' = 1
    /\ pc' = LoopPc(1)
    /\ UNCHANGED <<otherVars, backend, powershell_available, page_count,
                   delay_seconds, win0,
                   error, outcome, result, raised, response>>

\* one pass of the loop body up to the navigation: capture_window in its own try
Win_CapturePage ==
    /\ pc = "capture"
    /\ backend = "win"
    /\ \E out \in CaptureOutcomes :
         LET r == Win_CaptureWindow(win, powershell_available, page_num, out)
         IN  /\ win' = r.win
             /\ IF r.ok
                THEN /\ captured_files' =
                            Append(captured_files, PagePath(OutputDir, page_num))
                     /\ log' = log \o r.calls
                                   \o <<Ev("loop", "capture", page_num, "ok")>>
                     /\ pc' = "navigate"
                     /\ UNCHANGED page_num
                ELSE \* except Exception: log and continue
                     /\ log' = log \o r.calls
                                   \o <<Ev("loop", "capture", page_num, "fail")>>
                     /\ page_num' = page_num + 1
                     /\ pc' = LoopPc(page_num + 1)
                     /\ UNCHANGED captured_files
    /\ UNCHANGED <<otherVars, backend, powershell_available, page_count,
                   delay_seconds, win0,
                   stateBound, prepChanged, original_window_state, error, outcome,
                   result, raised, response>>

\* if page_num < page_count: key_sent = self._send_key_to_window(...)
Win_Navigate ==
    /\ pc = "navigate"
    /\ backend = "win"
    /\ IF NavigationDue(page_num)
       THEN \E out \in KeyOutcomes :
              /\ log' = log \o Win_PostMessage(powershell_available,
                                                KeyMapping(navigation_key), page_num, out)
                            \o <<Ev("loop", "send_key", page_num,
                                    Win_SendKeyToWindow(powershell_available, out))>>
              /\ pc' = "sleep"
              /\ UNCHANGED page_num
       ELSE /\ page_num' = page_num + 1
            /\ pc' = LoopPc(page_num + 1)
            /\ UNCHANGED log
    /\ UNCHANGED <<otherVars, backend, powershell_available, page_count,
                   delay_seconds, win, win0,
                   captured_files, stateBound, prepChanged, original_window_state,
                   error, outcome, result, raised, response>>

\* time.sleep(delay_seconds): ValueError for a negative length
Win_Sleep ==
    /\ pc = "sleep"
    /\ backend = "win"
    /\ IF delay_seconds < 0
       THEN /\ Throw("ValueError")
            /\ log' = Append(log, Ev("loop", "sleep", page_num, "raise"))
            /\ UNCHANGED page_num
       ELSE /\ log' = Append(log, Ev("loop", "sleep", page_num, "ok"))
            /\ page_num' = page_num + 1
            /\ pc' = LoopPc(page_num + 1)
            /\ UNCHANGED error
    /\ UNCHANGED <<otherVars, backend, powershell_available, page_count,
                   delay_seconds, win, win0,
                   captured_files, stateBound, prepChanged, original_window_state,
                   outcome, result, raised, response>>

\* after the loop: restore if original_window_state is non-empty, then return
Win_Finish ==
    /\ pc = "finish"
    /\ backend = "win"
    /\ IF ~original_window_state.empty
       THEN \E out \in RestoreOutcomes :
              LET r == RestoreWindowState(win, powershell_available,
                                          original_window_state, out)
              IN  /\ win' = r.win
                  /\ log' = log \o <<Ev("session", "restore", 0, r.ret)>> \o r.calls
                  /\ IF r.ret = "raise"
                     THEN /\ Throw("RestoreError")
                          /\ UNCHANGED <<outcome, result>>
                     ELSE /\ outcome' = "returned"
                          /\ result' = captured_files
                          /\ pc' = "done"
                          /\ UNCHANGED error
       ELSE /\ outcome' = "returned"
            /\ result' = captured_files
            /\ pc' = "done"
            /\ UNCHANGED <<win, log, error>>
    /\ UNCHANGED <<otherVars, backend, powershell_available, page_count,
                   delay_seconds, win0,
                   page_num, captured_files, stateBound, prepChanged,
                   original_window_state, raised, response>>

\* except Exception as e: restore inside its own try, then a bare raise
Win_Except ==
    /\ pc = "except"
    /\ backend = "win"
    /\ IF stateBound /\ ~original_window_state.empty
       THEN \E out \in RestoreOutcomes :
              LET r == RestoreWindowState(win, powershell_available,
                                          original_window_state, out)
              IN  /\ win' = r.win
                  /\ log' = log \o <<Ev("session", "restore", 0, r.ret)>> \o r.calls
       ELSE UNCHANGED <<win, log>>
    /\ outcome' = "raised"
    /\ raised' = error
    /\ pc' = "done"
    /\ UNCHANGED <<otherVars, backend, powershell_available, page_count,
                   delay_seconds, win0,
                   page_num, captured_files, stateBound, prepChanged,
                   original_window_state, error, result, response>>

(* ------------------------- WindowCapture (X11) ------------------------ *)
FocusOutcomes == {"ok", "error", "timeout"}

\* WindowCapture.focus_window: [ret, win]; only CalledProcessError is caught,
\* so a timed-out wmctrl raises
X11_FocusWindow(w, out) ==
    CASE out = "ok"      -> [ret |-> "True", win |-> WmctrlActivate(w)]
      [] out = "error"   -> [ret |-> "False", win |-> w]
      [] out = "timeout" -> [ret |-> "raise", win |-> w]

\* WindowCapture.capture_window: focus (a False is tolerated), geometry,
\* grab, save; [ok, win], ok = FALSE is a raise
X11_CaptureWindow(w, focusOut, grabOk) ==
    LET f == X11_FocusWindow(w, focusOut)
    IN  IF f.ret = "raise" THEN [ok |-> FALSE, win |-> f.win]
        ELSE [ok |-> grabOk, win |-> f.win]

X11KeyOutcomes == {"ok", "error", "not_found", "timeout"}

\* WindowCapture._send_key_to_window: CalledProcessError and FileNotFoundError
\* give False, a timed-out xdotool raises
X11_SendKeyToWindow(out) ==
    CASE out = "ok" -> "True"
      [] out \in {"error", "not_found"} -> "False"
      [] out = "timeout" -> "raise"

\* xdotool key --window <id> <key>: the key name goes to xdotool as given
X11_XdotoolKey(key, page, out) ==
    IF out = "ok" THEN <<Ev("send_key", "xdotool", page, key)>> ELSE <<>>

\* Path(output_dir).mkdir(exist_ok=True)
X11_Mkdir ==
    /\ pc = "start"
    /\ backend = "x11"
    /\ \E ok \in BOOLEAN :
         IF ok
         THEN /\ pc' = "prepare"
              /\ log' = Append(log, Ev("session", "makedirs", 0, "ok"))
              /\ UNCHANGED error
         ELSE /\ Throw("OSError")
              /\ log' = Append(log, Ev("session", "makedirs", 0, "fail"))
    /\ UNCHANGED <<otherVars, backend, powershell_available, page_count,
                   delay_seconds, win, win0,
                   page_num, captured_files, stateBound, prepChanged,
                   original_window_state, outcome, result, raised, response>>

\* if not self.focus_window(window_id): raise; captured_files = []
X11_Focus ==
    /\ pc = "prepare"
    /\ backend = "x11"
    /\ \E out \in FocusOutcomes :
         LET r == X11_FocusWindow(win, out)
         IN  /\ win' = r.win
             /\ prepChanged' = (r.win # win)
             /\ log' = Append(log, Ev("session", "focus", 0, r.ret))
             /\ IF r.ret = "True"
                THEN /\ captured_files' = <<>>
                     /\ page_num' = 1
                     /\ pc' = LoopPc(1)
                     /\ UNCHANGED error
                ELSE /\ Throw(IF r.ret = "False" THEN "FocusError" ELSE "TimeoutExpired")
                     /\ UNCHANGED <<captured_files, page_num>>
    /\ UNCHANGED <<otherVars, backend, powershell_available, page_count,
                   delay_seconds, win0,
                   stateBound, original_window_state, outcome, result, raised,
                   response>>

\* self.capture_window(window_id, output_path); captured_files.append(output_path)
X11_CapturePage ==
    /\ pc = "capture"
    /\ backend = "x11"
    /\ \E focusOut \in FocusOutcomes, grabOk \in BOOLEAN :
         LET r == X11_CaptureWindow(win, focusOut, grabOk)
         IN  /\ win' = r.win
             /\ IF r.ok
                THEN /\ captured_files' =
                            Append(captured_files, PagePath(OutputDir, page_num))
                     /\ log' = Append(log, Ev("loop", "capture", page_num, "ok"))
                     /\ pc' = "navigate"
                     /\ UNCHANGED error
                ELSE /\ log' = Append(log, Ev("loop", "capture", page_num, "fail"))
                     /\ Throw("CaptureError")
                     /\ UNCHANGED captured_files
    /\ UNCHANGED <<otherVars, backend, powershell_available, page_count,
                   delay_seconds, win0,
                   page_num, stateBound, prepChanged, original_window_state, outcome,
                   result, raised, response>>

\* if page_num < page_count: self._send_key_to_window(window_id, navigation_key)
X11_Navigate ==
    /\ pc = "navigate"
    /\ backend = "x11"
    /\ IF NavigationDue(page_num)
       THEN \E out \in X11KeyOutcomes :
              LET sent == X11_SendKeyToWindow(out)
              IN  /\ log' = log \o X11_XdotoolKey(navigation_key, page_num, out)
                                \o <<Ev("loop", "send_key", page_num, sent)>>
                  /\ IF sent = "raise"
                     THEN Throw("TimeoutExpired")
                     ELSE /\ pc' = "sleep"
                          /\ UNCHANGED error
                  /\ UNCHANGED page_num
       ELSE /\ page_num' = page_num + 1
            /\ pc' = LoopPc(page_num + 1)
            /\ UNCHANGED <<log, error>>
    /\ UNCHANGED <<otherVars, backend, powershell_available, page_count,
                   delay_seconds, win, win0,
                   captured_files, stateBound, prepChanged, original_window_state,
                   outcome, result, raised, response>>

\* time.sleep(delay_seconds)
X11_Sleep ==
    /\ pc = "sleep"
    /\ backend = "x11"
    /\ IF delay_seconds < 0
       THEN /\ Throw("ValueError")
            /\ log' = Append(log, Ev("loop", "sleep", page_num, "raise"))
            /\ UNCHANGED page_num
       ELSE /\ log' = Append(log, Ev("loop", "sleep", page_num, "ok"))
            /\ page_num' = page_num + 1
            /\ pc' = LoopPc(page_num + 1)
            /\ UNCHANGED error
    /\ UNCHANGED <<otherVars, backend, powershell_available, page_count,
                   delay_seconds, win, win0,
                   captured_files, stateBound, prepChanged, original_window_state,
                   outcome, result, raised, response>>

\* return captured_files
X11_Return ==
    /\ pc = "finish"
    /\ backend = "x11"
    /\ outcome' = "returned"
    /\ result' = captured_files
    /\ pc' = "done"
    /\ UNCHANGED <<otherVars, backend, powershell_available, page_count,
                   delay_seconds, win, win0,
                   page_num, captured_files, stateBound, prepChanged,
                   original_window_state, error, raised, response, log>>

\* except Exception as e: log and raise
X11_Except ==
    /\ pc = "except"
    /\ backend = "x11"
    /\ outcome' = "raised"
    /\ raised' = error
    /\ pc' = "done"
    /\ UNCHANGED <<otherVars, backend, powershell_available, page_count,
                   delay_seconds, win, win0,
                   page_num, captured_files, stateBound, prepChanged,
                   original_window_state, error, result, response, log>>

(* -------------------- the capture_document_pages tool ----------------- *)
NoResponse == [status |-> "none", pages_captured |-> 0, captured_files |-> <<>>]

\* the JSON the tool returns: the list on success, an empty list on error
ToolRespond ==
    /\ pc = "done"
    /\ response' =
         IF outcome = "returned"
         THEN [status |-> "success", pages_captured |-> Len(result),
               captured_files |-> result]
         ELSE [status |-> "error", pages_captured |-> 0, captured_files |-> <<>>]
    /\ pc' = "responded"
    /\ UNCHANGED <<otherVars, backend, powershell_available, page_count,
                   delay_seconds, win, win0,
                   page_num, captured_files, stateBound, prepChanged,
                   original_window_state, error, outcome, result, raised, log>>

(* --------------------------- specification ---------------------------- *)
\* a minimized or hidden window is not the foreground window
Windows ==
    {w \in [vis : VisStates, fg : BOOLEAN, layered : {FALSE}] :
        w.fg => w.vis \in {"normal", "maximized"}}

Init ==
    /\ backend \in Backends
    /\ powershell_available \in (IF backend = "win" THEN BOOLEAN ELSE {FALSE})
    /\ page_count \in PageCounts
    /\ delay_seconds \in Delays
    /\ win \in Windows
    /\ win0 = win
    /\ pc = "start"
    /\ page_num = 0
    /\ captured_files = <<>>
    /\ stateBound = FALSE
    /\ prepChanged = FALSE
    /\ original_window_state = EmptyState
    /\ error = "none"
    /\ outcome = "none"
    /\ result = <<>>
    /\ raised = "none"
    /\ response = NoResponse
    /\ log = <<>>
    /\ navigation_key \in NavigationKeys
    /\ NoManager
    /\ rect = [ok |-> TRUE, width |-> 8, height |-> 8]
    /\ NoCapture

Next ==
    \/ Win_MakeDirs
    \/ Win_DetectAndPrepare
    \/ Win_CapturePage
    \/ Win_Navigate
    \/ Win_Sleep
    \/ Win_Finish
    \/ Win_Except
    \/ X11_Mkdir
    \/ X11_Focus
    \/ X11_CapturePage
    \/ X11_Navigate
    \/ X11_Sleep
    \/ X11_Return
    \/ X11_Except
    \/ ToolRespond

Spec == Init /\ [][Next]_vars

(* ------------------------ what the log records ------------------------ *)
CaptureOk(i) == \E k \in DOMAIN log : log[k] = Ev("loop", "capture", i, "ok")

CaptureFailed(i) == \E k \in DOMAIN log : log[k] = Ev("loop", "capture", i, "fail")

Attempted(i) == CaptureOk(i) \/ CaptureFailed(i)

SendPages == {log[k].page : k \in Events("send_key")}

RestoreCalls == EventsBy("session", "restore")

Finished == pc \in {"done", "responded"}

\* the paths of the pages whose capture succeeded, in page order
RECURSIVE SucceededUpTo(_)
SucceededUpTo(n) ==
    IF n <= 0 THEN <<>>
    ELSE SucceededUpTo(n - 1)
         \o (IF CaptureOk(n) THEN <<PagePath(OutputDir, n)>> ELSE <<>>)

\* the number a digit string denotes
RECURSIVE DecimalValue(_)
DecimalValue(d) ==
    IF Len(d) = 0 THEN 0
    ELSE 10 * DecimalValue(SubSeq(d, 1, Len(d) - 1)) + d[Len(d)]

\* e is the file output_dir/page_<i>.png with i zero-padded to three digits
IsPage(e, i) ==
    /\ e.dir = OutputDir
    /\ e.stem = "page_"
    /\ e.ext = ".png"
    /\ Len(e.index) >= 3
    /\ DecimalValue(e.index) = i

\* the exception the loop body let escape, going by the calls made
LoopError ==
    IF \E k \in Events("sleep") : log[k].arg = "raise" THEN "ValueError" ELSE "none"

(* ------ the window-state pair of WindowsWindowManager on its own ------ *)
\* how many times _restore_window_state is called with one state record
MaxRestores == 2

\* state_info = manager._detect_and_prepare_window_state(window_id)
State_DetectAndPrepare ==
    /\ pc = "state_prepare"
    /\ \E out \in PrepareOutcomes :
         LET r == DetectAndPrepareWindowState(win, powershell_available, out)
         IN  /\ win' = r.win
             /\ original_window_state' = r.state
             /\ prepChanged' = (r.win # win)
             /\ log' = log \o <<Ev("session", "prepare", 0,
                                   IF r.state.empty THEN "empty" ELSE "state")>>
                           \o r.calls
    /\ stateBound' = TRUE
    /\ pc' = "state_restore"
    /\ UNCHANGED <<otherVars, backend, powershell_available, page_count,
                   delay_seconds, win0, page_num, captured_files,
                   error, outcome, result, raised, response>>

\* manager._restore_window_state(window_id, state_info), once more with the
\* same record; the record is only read
State_Restore ==
    /\ pc = "state_restore"
    /\ Cardinality(EventsBy("session", "restore")) < MaxRestores
    /\ \E out \in RestoreOutcomes :
         LET r == RestoreWindowState(win, powershell_available,
                                     original_window_state, out)
             n == Cardinality(EventsBy("session", "restore")) + 1
         IN  /\ win' = r.win
             /\ log' = log \o <<Ev("session", "restore", n, r.ret)>> \o r.calls
    /\ UNCHANGED <<otherVars, backend, powershell_available, page_count,
                   delay_seconds, win0, pc, page_num, captured_files, stateBound,
                   prepChanged, original_window_state,
                   error, outcome, result, raised, response>>

StateInit ==
    /\ backend = "win"
    /\ powershell_available \in BOOLEAN
    /\ page_count = 0
    /\ delay_seconds = 1
    /\ win \in Windows
    /\ win0 = win
    /\ pc = "state_prepare"
    /\ page_num = 0
    /\ captured_files = <<>>
    /\ stateBound = FALSE
    /\ prepChanged = FALSE
    /\ original_window_state = EmptyState
    /\ error = "none"
    /\ outcome = "none"
    /\ result = <<>>
    /\ raised = "none"
    /\ response = NoResponse
    /\ log = <<>>
    /\ navigation_key = "Down"
    /\ NoManager
    /\ rect = [ok |-> TRUE, width |-> 8, height |-> 8]
    /\ NoCapture

StateNext ==
    \/ State_DetectAndPrepare
    \/ State_Restore

StateSpec == StateInit /\ [][StateNext]_vars

\* the position in the log of the n-th _restore_window_state call
RestoreCall(n) ==
    CHOOSE k \in DOMAIN log : log[k] \in {Ev("session", "restore", n, r) :
                                            r \in {"true", "false", "raise"}}

RestoreCalled(n) ==
    \E k \in DOMAIN log : log[k].by = "session" /\ log[k].op = "restore"
                          /\ log[k].page = n

\* the ShowWindow commands the n-th _restore_window_state call issued
RestoreTransitions(n) ==
    {k \in EventsBy("restore", "ShowWindow") :
        /\ k > RestoreCall(n)
        /\ RestoreCalled(n + 1) => k < RestoreCall(n + 1)}

(* ----------------------- detect_environment --------------------------- *)
\* /proc/version: missing, present but unreadable, or its text
ProcVersions ==
    {"absent", "unreadable",
     "Linux version 5.15 (Microsoft@Microsoft.com)",
     "Linux version 5.15-WSL2",
     "Linux version 6.1 (debian)"}

\* platform.system(), "error" when it raises
Systems == {"Windows", "Linux", "Darwin", "error"}

Hosts == [proc_version : ProcVersions, system : Systems]

\* 'microsoft' in f.read().lower()
MentionsMicrosoft(text) == text = "Linux version 5.15 (Microsoft@Microsoft.com)"

\* 'wsl' in f.read().lower()
MentionsWsl(text) == text = "Linux version 5.15-WSL2"

\* the try block of detect_environment: a value, or "raise"
DetectTry(h) ==
    IF h.proc_version = "unreadable" THEN "raise"
    ELSE IF /\ h.proc_version # "absent"
            /\ MentionsMicrosoft(h.proc_version) \/ MentionsWsl(h.proc_version)
    THEN "wsl"
    ELSE IF h.system = "error" THEN "raise"
    ELSE IF h.system = "Windows" THEN "windows"
    ELSE "linux"

detect_environment_Propagates(h) == DetectTry(h)

\* detect_environment(): except Exception -> 'linux'
detect_environment(h) ==
    LET r == DetectTry(h) IN IF r = "raise" THEN "linux" ELSE r

(* -------------------------- list_windows ------------------------------ *)
\* how many top-level windows the desktop has
MaxWindows == 2

\* how many times detect_environment() is called on its own
MaxDetects == 2

\* one top-level window and its process, as the platform reports it
Procs ==
    [handle : {0, 7}, title : {<<>>, <<"Doc">>}, name : {"app"},
     pid : {"41"}, vis : {"normal", "minimized", "hidden"}]
    \cup [handle : {7}, title : {<<"Doc">>}, name : {"dwm"},
          pid : {"41"}, vis : {"normal"}]

Desktops == {d \in SUBSET Procs : Cardinality(d) <= MaxWindows}

\* the order in which the platform enumerates the desktop
RECURSIVE Enumerate(_)
Enumerate(d) ==
    IF d = {} THEN <<>>
    ELSE LET p == CHOOSE q \in d : TRUE IN <<p>> \o Enumerate(d \ {p})

\* MainWindowHandle.HandleString(): the decimal digits
HandleString(n) == Digits(n)

SystemProcesses == {"dwm", "csrss", "winlogon", "wininit"}

WindowTitle_NoFallback(p) == p.title

\* the title the enumeration script reports: the window text, or
\* "[<ProcessName> - <Id>]" when that is empty
WindowTitle(p) ==
    IF p.title = <<>> THEN <<"[", p.name, " - ", p.pid, "]">> ELSE p.title

\* the objects the enumeration script of WindowsWindowManager.list_windows
\* collects in $windows
RECURSIVE EnumScript(_)
EnumScript(ps) ==
    IF ps = <<>> THEN <<>>
    ELSE LET p == Head(ps)
             isVisible   == p.vis # "hidden"
             isMinimized == p.vis = "minimized"
         IN  (IF /\ p.handle # 0
                 /\ p.name \notin SystemProcesses
                 /\ isVisible \/ isMinimized
              THEN <<[id |-> HandleString(p.handle), title |-> WindowTitle(p),
                      process_name |-> p.name, process_id |-> p.pid,
                      window_handle |-> HandleString(p.handle),
                      window_state |-> IF isMinimized THEN "minimized" ELSE "normal",
                      type |-> "windows"]>>
              ELSE <<>>)
             \o EnumScript(Tail(ps))

\* the loop over the parsed JSON: entries whose window_handle is '0' are skipped
RECURSIVE Win_ParseWindows(_)
Win_ParseWindows(data) ==
    IF data = <<>> THEN <<>>
    ELSE (IF Head(data).window_handle = <<0>> THEN <<>> ELSE <<Head(data)>>)
         \o Win_ParseWindows(Tail(data))

ListOutcomes == {"ok", "error", "not_found", "timeout", "garbage"}

\* WindowsWindowManager.list_windows: [raises, windows]
Win_ListWindows(ps, d, out) ==
    IF ~ps THEN [raises |-> FALSE, windows |-> <<>>]
    ELSE IF out = "ok"
    THEN [raises |-> FALSE, windows |-> Win_ParseWindows(EnumScript(Enumerate(d)))]
    ELSE \* JSONDecodeError, TimeoutExpired, CalledProcessError: return []
         [raises |-> FALSE, windows |-> <<>>]

\* 0x%08lx of wmctrl: zero-padded (handles stay below 10, where the hex and
\* the decimal digit agree; the 0x prefix is left out)
WmctrlId(n) == <<0, 0>> \o Digits(n)

\* the lines `wmctrl -l` prints, each as line.split(None, 3) cuts it: the
\* managed client windows, an empty title leaving three fields
RECURSIVE WmctrlLines(_)
WmctrlLines(ps) ==
    IF ps = <<>> THEN <<>>
    ELSE LET p == Head(ps)
         IN  (IF p.handle # 0 /\ p.vis # "hidden"
              THEN <<<<WmctrlId(p.handle), "0", "host">>
                     \o (IF p.title = <<>> THEN <<>> ELSE <<p.title>>)>>
              ELSE <<>>)
             \o WmctrlLines(Tail(ps))

\* the loop over the lines: only lines with four parts become entries
RECURSIVE X11_ParseLines(_)
X11_ParseLines(lines) ==
    IF lines = <<>> THEN <<>>
    ELSE LET parts == Head(lines)
         IN  (IF Len(parts) >= 4
              THEN <<[id |-> parts[1], title |-> parts[4], desktop |-> parts[2],
                      machine |-> parts[3]]>>
              ELSE <<>>)
             \o X11_ParseLines(Tail(lines))

\* WindowCapture.list_windows: [raises, windows]; CalledProcessError and
\* FileNotFoundError give [], a timed-out wmctrl raises
X11_ListWindows(d, out) ==
    CASE out = "ok" ->
           [raises |-> FALSE, windows |-> X11_ParseLines(WmctrlLines(Enumerate(d)))]
      [] out = "garbage" ->
           [raises |-> FALSE, windows |-> X11_ParseLines(<<<<"Cannot">>>>)]
      [] out \in {"error", "not_found"} ->
           [raises |-> FALSE, windows |-> <<>>]
      [] out = "timeout" ->
           [raises |-> TRUE, windows |-> <<>>]

\* self.manager.list_windows()
Manager_ListWindows(b, ps, d, out) ==
    IF b = "win" THEN Win_ListWindows(ps, d, out) ELSE X11_ListWindows(d, out)

\* window['environment'] = ...; window['type'] = ... if it has none
Tagged(w, env) ==
    [f \in DOMAIN w \cup {"environment", "type"} |->
        IF f = "environment" THEN env
        ELSE IF f = "type" /\ "type" \notin DOMAIN w
        THEN (IF env = "linux" THEN "x11" ELSE env)
        ELSE w[f]]

\* CrossPlatformWindowManager.list_windows: [raises, windows]
Cross_ListWindows(b, ps, env, d, out) ==
    LET r == Manager_ListWindows(b, ps, d, out)
    IN  IF r.raises THEN [raises |-> FALSE, windows |-> <<>>]
        ELSE [raises |-> FALSE,
              windows |-> [i \in DOMAIN r.windows |-> Tagged(r.windows[i], env)]]

PowerShellChecks == {"ok", "timeout", "error", "not_found"}

\* detect_environment() called on its own
Host_Detect ==
    /\ pc = "mgr_new"
    /\ Len(detected) < MaxDetects
    /\ detected' = Append(detected, detect_environment(host))
    /\ UNCHANGED <<docVars, navigation_key, host, environment, desktop, rect, files,
                   temp_windows_path, wsl_temp_path, backend,
                   powershell_available, page_count, delay_seconds, win, win0, pc,
                   page_num, captured_files, stateBound, prepChanged,
                   original_window_state, error, outcome, result, raised, response,
                   log>>

\* CrossPlatformWindowManager(): detect_environment, then _create_manager
Cross_Init ==
    /\ pc = "mgr_new"
    /\ \E chk \in PowerShellChecks :
         LET env == detect_environment(host)
             ps  == chk = "ok"
         IN  /\ environment' = env
             /\ IF env = "wsl"
                THEN /\ backend' = IF ps THEN "win" ELSE "x11"
                     /\ powershell_available' = ps
                ELSE IF env = "windows"
                THEN /\ backend' = "win"
                     /\ powershell_available' = ps
                ELSE /\ backend' = "x11"
                     /\ powershell_available' = FALSE
    /\ pc' = "mgr_ready"
    /\ UNCHANGED <<docVars, navigation_key, host, detected, desktop, rect, files,
                   temp_windows_path, wsl_temp_path, page_count,
                   delay_seconds, win, win0, page_num, captured_files, stateBound,
                   prepChanged, original_window_state, error, outcome, result, raised,
                   response, log>>

\* manager.manager.list_windows(): the backend's list_windows called directly
Manager_List ==
    /\ pc = "mgr_ready"
    /\ \E out \in ListOutcomes :
         LET r == Manager_ListWindows(backend, powershell_available, desktop, out)
         IN  /\ log' = Append(log, Ev(backend, "list_windows", 0, out))
             /\ outcome' = IF r.raises THEN "raised" ELSE "returned"
             /\ raised' = IF r.raises THEN "TimeoutExpired" ELSE "none"
             /\ result' = r.windows
    /\ pc' = "mgr_done"
    /\ UNCHANGED <<otherVars, backend, powershell_available, page_count,
                   delay_seconds, win, win0, page_num, captured_files, stateBound,
                   prepChanged, original_window_state, error, response>>

\* manager.list_windows(): through CrossPlatformWindowManager
Cross_List ==
    /\ pc = "mgr_ready"
    /\ \E out \in ListOutcomes :
         LET r == Cross_ListWindows(backend, powershell_available, environment,
                                    desktop, out)
         IN  /\ log' = Append(log, Ev("cross", "list_windows", 0, out))
             /\ outcome' = IF r.raises THEN "raised" ELSE "returned"
             /\ raised' = IF r.raises THEN "TimeoutExpired" ELSE "none"
             /\ result' = r.windows
    /\ pc' = "mgr_done"
    /\ UNCHANGED <<otherVars, backend, powershell_available, page_count,
                   delay_seconds, win, win0, page_num, captured_files, stateBound,
                   prepChanged, original_window_state, error, response>>

\* one host for each way _create_manager can go
ManagerHosts ==
    {h \in Hosts : /\ h.proc_version \in {"absent", "Linux version 5.15-WSL2"}
                   /\ h.system \in {"Windows", "Linux"}}

\* a freshly started process: no manager yet, nothing called
Fresh(hosts, desktops) ==
    /\ host \in hosts
    /\ desktop \in desktops
    /\ environment = "none"
    /\ detected = <<>>
    /\ backend = "x11"
    /\ powershell_available = FALSE
    /\ page_count = 0
    /\ delay_seconds = 1
    /\ win = [vis |-> "normal", fg |-> FALSE, layered |-> FALSE]
    /\ win0 = win
    /\ pc = "mgr_new"
    /\ page_num = 0
    /\ captured_files = <<>>
    /\ stateBound = FALSE
    /\ prepChanged = FALSE
    /\ original_window_state = EmptyState
    /\ error = "none"
    /\ outcome = "none"
    /\ result = <<>>
    /\ raised = "none"
    /\ response = NoResponse
    /\ log = <<>>
    /\ navigation_key = "Down"
    /\ rect = [ok |-> TRUE, width |-> 8, height |-> 8]
    /\ NoCapture

\* every desktop, on the hosts of ManagerHosts
ManagerInit == Fresh(ManagerHosts, Desktops)

\* every host, with an empty desktop
HostInit == Fresh(Hosts, {{}})

ManagerNext ==
    \/ Host_Detect
    \/ Cross_Init
    \/ Manager_List
    \/ Cross_List

ManagerSpec == ManagerInit /\ [][ManagerNext]_vars

HostSpec == HostInit /\ [][ManagerNext]_vars

\* the list_windows call that was made, if any
ListCalls == Events("list_windows")

\* the windows of the desktop the Windows enumeration has to report
Capturable(p) ==
    /\ p.handle # 0
    /\ p.name \notin SystemProcesses
    /\ p.vis # "hidden"

(* ------------------------ single-window capture ----------------------- *)
\* widths and heights a window rectangle can have
Dims == {0 - 1, 0, 8}

\* GetWindowRect / wmctrl -G: no rectangle, or its width and height
Rects ==
    {[ok |-> FALSE, width |-> 0, height |-> 0]}
    \cup [ok : {TRUE}, width : Dims, height : Dims]

\* argument output_path
OutputPath == [root |-> "captures", sep |-> "/", name |-> "shot.png"]

\* the drive of the Windows temp directory
TempDrives == {"C:", "D:"}

\* [System.IO.Path]::GetTempFileName() + ".png"
TempFileName(drive) == [root |-> drive, sep |-> "\\", name |-> "tmp1.tmp.png"]

\* wslpath <windows_path>
WslPath(path) ==
    [root |-> IF path.root = "C:" THEN "/mnt/c" ELSE "/mnt/d", sep |-> "/",
     name |-> path.name]

WslPathOutcomes == {"ok", "error", "timeout", "not_found"}

\* _windows_path_to_wsl: [raises, path]; a failed or timed-out wslpath falls
\* back to rewriting a C: path by hand and leaves any other path as it is
WindowsPathToWsl(path, out) ==
    CASE out = "ok" -> [raises |-> FALSE, path |-> WslPath(path)]
      [] out \in {"error", "timeout"} ->
           [raises |-> FALSE,
            path |-> IF path.root = "C:"
                     THEN [root |-> "/mnt/c", sep |-> "/", name |-> path.name]
                     ELSE path]
      [] out = "not_found" -> [raises |-> TRUE, path |-> path]

ScriptOutcomes ==
    {"ok", "render_error", "timeout_early", "timeout_restored", "empty_output"}

\* The capture script of WindowsWindowManager.capture_window on window w with
\* rectangle r: [exit, win, calls, wrote]. exit is "0", "1" or "timeout";
\* wrote says the temp file was saved.
CaptureScript(w, r, out) ==
    LET restored == [ShowWindow(w, "SW_RESTORE") EXCEPT !.layered = TRUE]
        back     == ShowWindow([restored EXCEPT !.layered = w.layered], "SW_MINIMIZE")
        stealth  == <<Ev("capture", "ShowWindow", 0, "SW_RESTORE"),
                      Ev("capture", "ShowWindow", 0, "SW_MINIMIZE")>>
    IN  IF out = "timeout_early"
        THEN [exit |-> "timeout", win |-> w, calls |-> <<>>, wrote |-> FALSE]
        ELSE IF ~r.ok \* "Could not get window rectangle"
        THEN [exit |-> "1", win |-> w, calls |-> <<>>, wrote |-> FALSE]
        ELSE IF r.width <= 0 \/ r.height <= 0 \* "Invalid window dimensions"
        THEN [exit |-> "1", win |-> w, calls |-> <<>>, wrote |-> FALSE]
        ELSE IF w.vis # "minimized"
        THEN CASE out = "ok" ->
                    [exit |-> "0", win |-> w, calls |-> <<>>, wrote |-> TRUE]
               [] out = "empty_output" ->
                    [exit |-> "0", win |-> w, calls |-> <<>>, wrote |-> FALSE]
               [] out = "render_error" ->
                    [exit |-> "1", win |-> w, calls |-> <<>>, wrote |-> FALSE]
               [] out = "timeout_restored" ->
                    [exit |-> "timeout", win |-> w, calls |-> <<>>, wrote |-> FALSE]
        ELSE CASE out = "ok" ->
                    [exit |-> "0", win |-> back, calls |-> stealth, wrote |-> TRUE]
               [] out = "empty_output" ->
                    [exit |-> "0", win |-> back, calls |-> stealth, wrote |-> FALSE]
               [] out = "render_error" ->
                    [exit |-> "1", win |-> back, calls |-> stealth, wrote |-> FALSE]
               [] out = "timeout_restored" ->
                    [exit |-> "timeout", win |-> restored,
                     calls |-> <<Ev("capture", "ShowWindow", 0, "SW_RESTORE")>>,
                     wrote |-> FALSE]

\* capture_window raises: nothing after the failing statement runs
CaptureRaise(e) ==
    /\ outcome' = "raised"
    /\ raised' = e
    /\ pc' = "cap_done"

\* return output_path
CaptureReturn ==
    /\ outcome' = "returned"
    /\ result' = <<OutputPath>>
    /\ pc' = "cap_done"

\* WindowsWindowManager.capture_window: the PowerShell check and the capture
\* script under its 60 s timeout
Win_Capture_Script ==
    /\ pc = "cap_start"
    /\ backend = "win"
    /\ IF ~powershell_available
       THEN /\ CaptureRaise("Exception")
            /\ UNCHANGED <<win, log, files, temp_windows_path, result>>
       ELSE \E out \in ScriptOutcomes, drive \in TempDrives :
              LET r == CaptureScript(win, rect, out)
              IN  /\ win' = r.win
                  /\ log' = log \o <<Ev("capture", "powershell", 0, out)>> \o r.calls
                  /\ files' = IF r.wrote THEN files \cup {TempFileName(drive)}
                              ELSE files
                  /\ IF r.exit = "timeout" THEN /\ CaptureRaise("Exception")
                                                /\ UNCHANGED temp_windows_path
                     ELSE IF r.exit = "1" THEN /\ CaptureRaise("CalledProcessError")
                                               /\ UNCHANGED temp_windows_path
                     ELSE IF ~r.wrote THEN /\ CaptureRaise("Exception")
                                           /\ UNCHANGED temp_windows_path
                     ELSE /\ temp_windows_path' = TempFileName(drive)
                          /\ pc' = "cap_wslpath"
                          /\ UNCHANGED <<outcome, raised>>
                  /\ UNCHANGED result
    /\ UNCHANGED <<docVars, navigation_key, host, environment, detected, desktop, rect,
                   wsl_temp_path, backend, powershell_available, page_count,
                   delay_seconds, win0, page_num, captured_files, stateBound,
                   prepChanged, original_window_state, error, response>>

\* wsl_temp_path = self._windows_path_to_wsl(temp_windows_path)
Win_Capture_WslPath ==
    /\ pc = "cap_wslpath"
    /\ \E out \in WslPathOutcomes :
         LET r == WindowsPathToWsl(temp_windows_path, out)
         IN  /\ log' = Append(log, Ev("capture", "wslpath", 0, out))
             /\ IF r.raises
                THEN /\ CaptureRaise("FileNotFoundError")
                     /\ UNCHANGED wsl_temp_path
                ELSE /\ wsl_temp_path' = r.path
                     /\ pc' = "cap_copy"
                     /\ UNCHANGED <<outcome, raised>>
    /\ UNCHANGED <<docVars, navigation_key, host, environment, detected, desktop, rect,
                   files, temp_windows_path, backend, powershell_available,
                   page_count, delay_seconds, win, win0, page_num, captured_files,
                   stateBound, prepChanged, original_window_state, error, result,
                   response>>

CopyOutcomes == {"ok", "error", "hang"}

\* subprocess.run(['cp', wsl_temp_path, output_path], check=True): no timeout
Win_Capture_Copy ==
    /\ pc = "cap_copy"
    /\ \E out \in CopyOutcomes :
         \* a path that is still a Windows path names no file under WSL
         /\ wsl_temp_path.sep = "\\" => out = "error"
         /\ log' = Append(log, Ev("capture", "cp", 0, out))
         /\ CASE out = "ok" ->
                   /\ files' = files \cup {OutputPath}
                   /\ pc' = "cap_cleanup"
                   /\ UNCHANGED <<outcome, raised>>
              [] out = "error" ->
                   /\ CaptureRaise("CalledProcessError")
                   /\ UNCHANGED files
              [] out = "hang" ->
                   /\ pc' = "blocked"
                   /\ UNCHANGED <<files, outcome, raised>>
    /\ UNCHANGED <<docVars, navigation_key, host, environment, detected, desktop, rect,
                   temp_windows_path, wsl_temp_path, backend, powershell_available,
                   page_count, delay_seconds, win, win0, page_num, captured_files,
                   stateBound, prepChanged, original_window_state, error, result,
                   response>>

CleanupOutcomes == {"ok", "error", "hang"}

\* powershell.exe Remove-Item <temp_windows_path> (check=False, no timeout),
\* then return output_path
Win_Capture_Cleanup ==
    /\ pc = "cap_cleanup"
    /\ \E out \in CleanupOutcomes :
         /\ log' = Append(log, Ev("capture", "Remove-Item", 0, out))
         /\ CASE out = "ok" ->
                   /\ files' = files \ {temp_windows_path}
                   /\ CaptureReturn
                   /\ UNCHANGED raised
              [] out = "error" ->
                   /\ CaptureReturn
                   /\ UNCHANGED <<files, raised>>
              [] out = "hang" ->
                   /\ pc' = "blocked"
                   /\ UNCHANGED <<files, outcome, raised, result>>
    /\ UNCHANGED <<docVars, navigation_key, host, environment, detected, desktop, rect,
                   temp_windows_path, wsl_temp_path, backend, powershell_available,
                   page_count, delay_seconds, win, win0, page_num, captured_files,
                   stateBound, prepChanged, original_window_state, error, response>>

\* WindowCapture.capture_window: if not self.focus_window(window_id): warn
X11_Capture_Focus ==
    /\ pc = "cap_start"
    /\ backend = "x11"
    /\ \E out \in FocusOutcomes :
         LET f == X11_FocusWindow(win, out)
         IN  /\ win' = f.win
             /\ log' = Append(log, Ev("capture", "focus", 0, f.ret))
             /\ IF f.ret = "raise"
                THEN CaptureRaise("TimeoutExpired")
                ELSE /\ pc' = "cap_geometry"
                     /\ UNCHANGED <<outcome, raised>>
    /\ UNCHANGED <<otherVars, backend, powershell_available, page_count,
                   delay_seconds, win0, page_num, captured_files, stateBound,
                   prepChanged, original_window_state, error, result, response>>

GeometryOutcomes == {"ok", "error", "not_listed", "timeout"}

\* WindowCapture.get_window_geometry: "rect" | "none" | "raise"; only
\* CalledProcessError and ValueError are caught
X11_GetWindowGeometry(r, out) ==
    CASE out = "ok" -> IF r.ok THEN "rect" ELSE "none"
      [] out \in {"error", "not_listed"} -> "none"
      [] out = "timeout" -> "raise"

\* geometry = self.get_window_geometry(window_id)
X11_Capture_Geometry ==
    /\ pc = "cap_geometry"
    /\ \E out \in GeometryOutcomes :
         LET g == X11_GetWindowGeometry(rect, out)
         IN  /\ log' = Append(log, Ev("capture", "geometry", 0, g))
             /\ IF g = "raise"
                THEN CaptureRaise("TimeoutExpired")
                ELSE /\ pc' = "cap_grab"
                     /\ UNCHANGED <<outcome, raised>>
    /\ UNCHANGED <<otherVars, backend, powershell_available, page_count,
                   delay_seconds, win, win0, page_num, captured_files, stateBound,
                   prepChanged, original_window_state, error, result, response>>

\* local geometry of WindowCapture.capture_window is a rectangle
GeometryKnown ==
    \E k \in DOMAIN log : log[k] = Ev("capture", "geometry", 0, "rect")

GrabOutcomes == {"ok", "error", "hang"}

\* ImageGrab.grab(bbox=(x, y, x + width, y + height)) or ImageGrab.grab(): the
\* rectangle is handed over unchecked, what the library does with it is the
\* library's choice; the call has no timeout
X11_Capture_Grab ==
    /\ pc = "cap_grab"
    /\ \E out \in GrabOutcomes :
         /\ log' = Append(log, Ev("capture",
                                  IF GeometryKnown THEN "grab_bbox" ELSE "grab_screen",
                                  0, out))
         /\ CASE out = "ok" ->
                   /\ pc' = "cap_save"
                   /\ UNCHANGED <<outcome, raised>>
              [] out = "error" ->
                   CaptureRaise("Exception")
              [] out = "hang" ->
                   /\ pc' = "blocked"
                   /\ UNCHANGED <<outcome, raised>>
    /\ UNCHANGED <<otherVars, backend, powershell_available, page_count,
                   delay_seconds, win, win0, page_num, captured_files, stateBound,
                   prepChanged, original_window_state, error, result, response>>

\* screenshot.save(output_path); return output_path
X11_Capture_Save ==
    /\ pc = "cap_save"
    /\ \E ok \in BOOLEAN :
         /\ log' = Append(log, Ev("capture", "save", 0, IF ok THEN "ok" ELSE "error"))
         /\ IF ok
            THEN /\ files' = files \cup {OutputPath}
                 /\ CaptureReturn
                 /\ UNCHANGED raised
            ELSE /\ CaptureRaise("OSError")
                 /\ UNCHANGED <<files, result>>
    /\ UNCHANGED <<docVars, navigation_key, host, environment, detected, desktop, rect,
                   temp_windows_path, wsl_temp_path, backend, powershell_available,
                   page_count, delay_seconds, win, win0, page_num, captured_files,
                   stateBound, prepChanged, original_window_state, error, response>>

CaptureInit ==
    /\ backend \in Backends
    /\ powershell_available \in (IF backend = "win" THEN BOOLEAN ELSE {FALSE})
    /\ win \in Windows
    /\ win0 = win
    /\ rect \in Rects
    /\ NoCapture
    /\ NoManager
    /\ pc = "cap_start"
    /\ page_count = 0
    /\ delay_seconds = 1
    /\ page_num = 0
    /\ captured_files = <<>>
    /\ stateBound = FALSE
    /\ prepChanged = FALSE
    /\ original_window_state = EmptyState
    /\ error = "none"
    /\ outcome = "none"
    /\ result = <<>>
    /\ raised = "none"
    /\ response = NoResponse
    /\ log = <<>>
    /\ navigation_key = "Down"

CaptureNext ==
    \/ Win_Capture_Script
    \/ Win_Capture_WslPath
    \/ Win_Capture_Copy
    \/ Win_Capture_Cleanup
    \/ X11_Capture_Focus
    \/ X11_Capture_Geometry
    \/ X11_Capture_Grab
    \/ X11_Capture_Save

CaptureSpec == CaptureInit /\ [][CaptureNext]_vars

\* capture_window has returned or raised
CaptureOver == pc = "cap_done"

\* the capture had a rectangle in hand whose width or height is not positive
DegenerateRectangle ==
    /\ rect.ok
    /\ rect.width <= 0 \/ rect.height <= 0
    /\ \/ backend = "win" /\ powershell_available
       \/ backend = "x11" /\ GeometryKnown

\* the capture asked for the rectangle and did not get one
RectangleUnknown ==
    \/ /\ backend = "win"
       /\ ~rect.ok
       /\ \E k \in EventsBy("capture", "powershell") : log[k].arg = "ok"
    \/ /\ backend = "x11"
       /\ \E k \in DOMAIN log : log[k] = Ev("capture", "geometry", 0, "none")

\* no external command of the capture failed, apart from the rectangle query
NothingElseFailed ==
    \A k \in DOMAIN log :
        log[k].by = "capture" =>
            \/ log[k].op \in {"geometry", "ShowWindow"}
            \/ log[k].arg \in {"ok", "True"}

(* ------------------- window-state transitions issued ------------------ *)
\* every call that changes how the window is shown, whoever issued it
Transitions ==
    {k \in DOMAIN log : log[k].op \in {"ShowWindow", "SetForegroundWindow"}}

MinimizeTransitions ==
    {k \in DOMAIN log : log[k].op = "ShowWindow" /\ log[k].arg = "SW_MINIMIZE"}

\* the preparation step reported a state record saying the window was minimized
PrepareObservedMinimized ==
    /\ backend = "win"
    /\ stateBound
    /\ ~original_window_state.empty
    /\ original_window_state.was_minimized

\* the restoration script got as far as its ShowWindow call
RestoreScriptRan ==
    \E k \in EventsBy("restore", "powershell") : log[k].arg \in {"ok", "timeout_after"}

(* --------------------------- keys delivered --------------------------- *)
\* the results of the _send_key_to_window calls
KeySends == EventsBy("loop", "send_key")

\* the native key events that reached the window
KeysDelivered ==
    {k \in DOMAIN log : log[k].by = "send_key" /\ log[k].op \in {"PostMessage", "xdotool"}}

\* the native key event that stands for a logical key: the Windows virtual
\* key, or the X keysym name xdotool is given
OwnNativeKey(b, key) ==
    IF b = "x11" THEN key
    ELSE CASE key = "Down"      -> "VK_DOWN"
           [] key = "Page_Down" -> "VK_NEXT"
           [] key = "Right"     -> "VK_RIGHT"
           [] key = "Up"        -> "VK_UP"
           [] key = "Left"      -> "VK_LEFT"
           [] key = "space"     -> "VK_SPACE"
           [] key = "Enter"     -> "VK_RETURN"
           [] key = "Tab"       -> "VK_TAB"

(* ------------------------------ claims -------------------------------- *)

\* C1: in every backend variant a failed capture of page i does not abort the
\* call: the failure is not propagated, pages i+1..N are still attempted and
\* the call returns the paths of exactly the pages whose capture succeeded.
C1_PageFailureDoesNotAbort ==
    \A k \in Events("capture") :
        log[k].arg = "fail" =>
            /\ ~(k = Len(log) /\ pc = "except")
            /\ Finished =>
                 (outcome = "raised" => raised # "CaptureError")
            /\ outcome = "returned" =>
                 /\ \A i \in 1 .. page_count : Attempted(i)
                 /\ result = SucceededUpTo(page_count)

\* C2: a call whose preparation changed the window attempts exactly one
\* restoration pass before it returns or raises.
C2_ExactlyOneRestore ==
    (Finished /\ prepChanged) => Cardinality(RestoreCalls) = 1

\* C3: after the call returned or raised, the window's visibility state and
\* foreground status equal those observed before the call.
C3_WindowLeftAsFound ==
    Finished => (win.vis = win0.vis /\ win.fg = win0.fg)

\* C4: for page_count <= 0 the call returns an empty sequence and makes no
\* window-state call: no prepare (detection, restore-to-normal, focus), no restore.
C4_NoStateCallsForEmptyRequest ==
    page_count <= 0 =>
        /\ EventsBy("prepare", "powershell") = {}
        /\ EventsBy("prepare", "ShowWindow") = {}
        /\ EventsBy("prepare", "SetForegroundWindow") = {}
        /\ EventsBy("session", "focus") = {}
        /\ RestoreCalls = {}
        /\ outcome = "returned" => result = <<>>

\* C5: a session with page_count = N that returns normally returns at most N
\* entries, each output_dir/page_<i> for an index i in 1..N, the indices
\* strictly increasing (so distinct), and an index is absent only if the
\* capture of that page failed.
C5_ReturnedPagesOrdered ==
    outcome = "returned" =>
        /\ Len(result) <= page_count \/ result = <<>>
        /\ \A k \in DOMAIN result :
             \E i \in 1 .. page_count : IsPage(result[k], i)
        /\ \A k, l \in DOMAIN result :
             k < l =>
               /\ result[k] # result[l]
               /\ DecimalValue(result[k].index) < DecimalValue(result[l].index)
        /\ \A i \in 1 .. page_count :
             (\A k \in DOMAIN result : ~IsPage(result[k], i)) => CaptureFailed(i)

\* C5 witness: three pages asked, page 2 failed, pages 1 and 3 returned
C5_Witness ==
    /\ outcome = "returned"
    /\ backend = "win"
    /\ page_count = 3
    /\ CaptureFailed(2)
    /\ Len(result) = 2
    /\ IsPage(result[1], 1)
    /\ IsPage(result[2], 3)

\* C6: when every page capture succeeds, a session with page_count = N returns
\* exactly page_001 .. page_N in order and the navigation key is sent exactly
\* N-1 times: once after each page i < N, never after page N.
C6_AllPagesAndKeys ==
    /\ (Finished /\ page_count >= 1 /\ \A i \in 1 .. page_count : CaptureOk(i)) =>
         /\ outcome = "returned"
         /\ Len(result) = page_count
         /\ \A k \in DOMAIN result : IsPage(result[k], k)
         /\ SendPages = {i \in 1 .. page_count : i < page_count}
         /\ Count("send_key") = page_count - 1
         /\ \A k \in Events("send_key") :
              \E c \in Events("capture") :
                 c < k /\ log[c] = Ev("loop", "capture", log[k].page, "ok")
    /\ (outcome = "returned" /\ page_count <= 0) =>
         (result = <<>> /\ Count("send_key") = 0)

\* C6 witness: three pages, all captured, the key sent after pages 1 and 2
C6_Witness ==
    /\ outcome = "returned"
    /\ page_count = 3
    /\ Len(result) = 3
    /\ SendPages = {1, 2}

\* C7: when the request ends with an error after k >= 1 pages were captured,
\* what the caller gets (the tool's error response) still carries those k pages.
C7_ErrorCarriesPages ==
    (pc = "responded" /\ outcome = "raised" /\ Len(captured_files) >= 1) =>
        response.captured_files = captured_files

\* C8: if the output directory cannot be created or the initial preparation
\* fails, the call raises instead of entering the capture loop, and the
\* restoration step has run before the error reaches the caller.
C8_PreparationFailureRaises ==
    (Finished /\ \/ \E k \in DOMAIN log : log[k] = Ev("session", "makedirs", 0, "fail")
                 \/ \E k \in DOMAIN log : log[k] = Ev("session", "prepare", 0, "empty")
                 \/ \E k \in EventsBy("session", "focus") : log[k].arg # "True") =>
        /\ outcome = "raised"
        /\ Events("capture") = {}
        /\ RestoreCalls # {}

\* C9: a failing restoration never changes the outcome: restore never raises
\* and reports failure as a boolean; on the success path the captured list is
\* still returned, on the failure path the error raised is the original one.
C9_RestoreFailureSwallowed ==
    /\ \A k \in RestoreCalls : log[k].arg \in {"true", "false"}
    /\ (Finished /\ \E k \in RestoreCalls : log[k].arg # "true") =>
         IF LoopError = "none"
         THEN outcome = "returned" /\ result = captured_files
         ELSE outcome = "raised" /\ raised = LoopError

\* C9 witness: the loop raised after a page was captured, the restoration
\* script then failed, and the call has raised
C9_Witness ==
    /\ Finished
    /\ outcome = "raised"
    /\ raised = "ValueError"
    /\ Len(captured_files) >= 1
    /\ \E k \in RestoreCalls : log[k].arg = "false"
    /\ EventsBy("restore", "powershell") # {}

\* C10: if prepare finds the window visible, not minimized and foreground, it
\* issues no transition, the state it returns has was_prepared = false, and
\* the restore made with that state makes no platform call and reports success.
C10_NothingToPrepareNothingToRestore ==
    (/\ backend = "win"
     /\ stateBound
     /\ ~original_window_state.empty
     /\ win0.vis \in {"normal", "maximized"}
     /\ win0.fg) =>
        /\ ~original_window_state.was_prepared
        /\ EventsBy("prepare", "ShowWindow") = {}
        /\ EventsBy("prepare", "SetForegroundWindow") = {}
        /\ ~prepChanged
        /\ EventsBy("restore", "powershell") = {}
        /\ EventsBy("restore", "ShowWindow") = {}
        /\ \A k \in RestoreCalls : log[k].arg = "true"

\* C10 witness: a normal foreground window, prepared and restored
C10_Witness ==
    /\ Finished
    /\ backend = "win"
    /\ win0.vis = "normal"
    /\ win0.fg
    /\ ~original_window_state.empty
    /\ RestoreCalls # {}

\* C11: calling _restore_window_state a second time with the same state record
\* is safe and a no-op: when the first call succeeded, the second does not
\* raise and issues no ShowWindow on the window, the first call having already
\* reversed the transition.
C11_SecondRestoreIsNoOp ==
    (RestoreCalled(1) /\ RestoreCalled(2) /\ log[RestoreCall(1)].arg = "true")
        => /\ log[RestoreCall(2)].arg # "raise"
           /\ RestoreTransitions(2) = {}

\* C12 (as stated): if the preparation step observed the window minimized,
\* then when the session is over restore has been called with the record that
\* holds the minimized state, and exactly one minimize transition was issued
\* in the whole session, as its last window-state transition.
C12_OneMinimizeAtTheEnd ==
    (Finished /\ PrepareObservedMinimized)
        => /\ Cardinality(RestoreCalls) = 1
           /\ original_window_state.state_name = "minimized"
           /\ Cardinality(MinimizeTransitions) = 1
           /\ \A k \in MinimizeTransitions : \A j \in Transitions : j <= k

\* C12 (amended): under the same premise restore is called exactly once with
\* the minimized record; at most one minimize transition is issued and it is
\* the last window-state transition; it is issued exactly when the restoration
\* script gets as far as its ShowWindow call.
C12_OneMinimizeWhenRestoreRuns ==
    (Finished /\ PrepareObservedMinimized)
        => /\ Cardinality(RestoreCalls) = 1
           /\ original_window_state.state_name = "minimized"
           /\ Cardinality(MinimizeTransitions) <= 1
           /\ \A k \in MinimizeTransitions : \A j \in Transitions : j <= k
           /\ RestoreScriptRan <=> Cardinality(MinimizeTransitions) = 1

C12_Witness ==
    /\ Finished
    /\ PrepareObservedMinimized
    /\ page_count >= 2
    /\ \A i \in 1 .. page_count : CaptureOk(i)
    /\ Cardinality(MinimizeTransitions) = 1
    /\ Cardinality(Transitions) >= 2

\* C13: in every backend variant sending a navigation key never raises: each
\* _send_key_to_window call ends in True or False, whatever the external
\* command did (non-zero exit, missing tool, timeout, unreachable bridge).
C13_KeySendNeverRaises ==
    \A k \in KeySends : log[k].arg \in {"True", "False"}

\* C14: the logical navigation key of the call is delivered as its own native
\* key event, and never as the native key event of another logical key.
C14_EachKeyItsOwnNativeKey ==
    \A k \in KeysDelivered :
        /\ log[k].arg = OwnNativeKey(backend, navigation_key)
        /\ \A other \in NavigationKeys \ {navigation_key} :
               log[k].arg # OwnNativeKey(backend, other)

\* C15: in every backend variant (WindowsWindowManager.list_windows,
\* WindowCapture.list_windows, CrossPlatformWindowManager.list_windows), when
\* the enumeration is unavailable, exits with an error, prints unparsable
\* output or times out, list_windows returns an empty sequence and does not
\* raise.
C15_ListWindowsDegradesToEmpty ==
    \A k \in ListCalls :
        (\/ log[k].arg # "ok"
         \/ (backend = "win" /\ ~powershell_available))
            => /\ outcome = "returned"
               /\ result = <<>>

C20_DetectEnvironmentTotal ==
    LET values == {detected[i] : i \in DOMAIN detected}
                  \cup (IF environment = "none" THEN {} ELSE {environment})
        introspectionError ==
            \/ host.proc_version = "unreadable"
            \/ /\ host.system = "error"
               /\ host.proc_version \in {"absent", "Linux version 6.1 (debian)"}
    IN  /\ values \subseteq {"wsl", "linux", "windows"}
        /\ introspectionError => values \subseteq {"linux"}
        /\ Cardinality(values) <= 1

C20_Witness ==
    /\ Len(detected) = 2
    /\ environment = "linux"
    /\ detected[1] = "linux"
    /\ host.proc_version = "unreadable"
    /\ host.system = "Windows"

C18_UnknownRectangleFallsBack ==
    (CaptureOver /\ RectangleUnknown /\ NothingElseFailed)
        => /\ outcome = "returned"
           /\ result = <<OutputPath>>
           /\ OutputPath \in files

\* C19: every external operation of a capture is bounded by a timeout, so a
\* single-window capture always returns or raises: whenever the call is not
\* over it can take another step, even when an external command hangs.
C19_CaptureAlwaysEnds ==
    CaptureOver \/ ENABLED CaptureNext

(* ------------------- order of the steps of one session ------------------ *)

\* the position in the log of the capture attempt of page i (0 if none)
CaptureAt(i) ==
    LET S == {k \in EventsBy("loop", "capture") : log[k].page = i}
    IN  IF S = {} THEN 0 ELSE CHOOSE k \in S : TRUE

\* the key sends / delays of the loop that lie between two log positions
SendsBetween(a, b) == {k \in EventsBy("loop", "send_key") : a < k /\ k < b}

SleepsBetween(a, b) == {k \in EventsBy("loop", "sleep") : a < k /\ k < b}

\* C23: for every page i < page_count, between the capture attempt of page i
\* and the capture attempt of page i+1 exactly one navigation key is sent and
\* exactly one delay elapses, whether the capture of page i succeeded or failed.
C23_OneNavigationBetweenAttempts ==
    \A i \in 1 .. (page_count - 1) :
        (Attempted(i) /\ Attempted(i + 1)) =>
            /\ Cardinality(SendsBetween(CaptureAt(i), CaptureAt(i + 1))) = 1
            /\ Cardinality(SleepsBetween(CaptureAt(i), CaptureAt(i + 1))) = 1

\* the log positions where a navigation key send returned false
FailedSends == {k \in KeySends : log[k].arg = "False"}

\* C24: in every backend variant a navigation key send that returns false does
\* not abort the session: with a valid (non-negative) delay, the delay after
\* that page still elapses and every remaining page i+1..N is still attempted.
C24_FailedKeySendDoesNotAbort ==
    (Finished /\ delay_seconds >= 0) =>
        \A k \in FailedSends :
            /\ \E s \in EventsBy("loop", "sleep") :
                   s > k /\ log[s].page = log[k].page /\ log[s].arg = "ok"
            /\ \A j \in (log[k].page + 1) .. page_count : Attempted(j)

\* the steps of the page loop: capture attempts, key sends and delays, with the
\* platform calls they make
StepEvents == {k \in DOMAIN log : log[k].by \in {"loop", "capture", "send_key"}}

\* the preparation of the session: _detect_and_prepare_window_state on
\* Windows, focus_window on X11, with the platform calls it makes
PrepareEvents ==
    {k \in DOMAIN log :
        \/ log[k].by = "prepare"
        \/ log[k].by = "session" /\ log[k].op \in {"prepare", "focus"}}

\* the restoration of the session with the platform calls it makes
RestoreEvents ==
    {k \in DOMAIN log :
        \/ log[k].by = "restore"
        \/ log[k].by = "session" /\ log[k].op = "restore"}

LoopEventsOf(op, i) == {k \in EventsBy("loop", op) : log[k].page = i}

\* C25: within one multi-page capture call the steps are strictly ordered:
\* prepare completes before the first capture and before any key send; for
\* each page i the capture of i precedes the key send of i, which precedes the
\* delay of i, which precedes the capture of page i+1; restore comes after the
\* last capture or key send, and no capture or key send follows it.
C25_StepsStrictlyOrdered ==
    /\ StepEvents # {} =>
           \E p \in PrepareEvents : log[p].by = "session"
    /\ \A p \in PrepareEvents : \A s \in StepEvents : p < s
    /\ \A r \in RestoreEvents : \A s \in StepEvents : s < r
    /\ \A i \in 1 .. MaxPages + 1 :
           /\ Cardinality(LoopEventsOf("capture", i)) <= 1
           /\ Cardinality(LoopEventsOf("send_key", i)) <= 1
           /\ Cardinality(LoopEventsOf("sleep", i)) <= 1
           /\ \A k \in LoopEventsOf("send_key", i) :
                  \E c \in LoopEventsOf("capture", i) : c < k
           /\ \A s \in LoopEventsOf("sleep", i) :
                  \E k \in LoopEventsOf("send_key", i) : k < s
           /\ \A c \in LoopEventsOf("capture", i + 1) :
                  /\ \A b \in LoopEventsOf("capture", i) : b < c
                  /\ \A k \in LoopEventsOf("send_key", i) : k < c
                  /\ \A s \in LoopEventsOf("sleep", i) : s < c

C25_Witness ==
    /\ Finished
    /\ backend = "win"
    /\ page_count = 3
    /\ \A i \in 1 .. 3 : CaptureOk(i)
    /\ Cardinality(EventsBy("loop", "send_key")) = 2
    /\ Cardinality(EventsBy("loop", "sleep")) = 2
    /\ \E r \in RestoreEvents : log[r].by = "restore"
    /\ \E p \in PrepareEvents : log[p].by = "prepare"

\* C29: a single-window capture of a minimized window on the Windows backend
\* leaves the window minimized and with its original extended style when the
\* call returns or fails, for every outcome of the capture command, a failed
\* render and a timeout after the temporary restore included.
C29_MinimizedWindowLeftMinimized ==
    (CaptureOver /\ backend = "win" /\ win0.vis = "minimized")
        => /\ win.vis = "minimized"
           /\ win.layered = win0.layered

(* ------------------------- files and image batches --------------------- *)

\* A file of a directory: page_<page>, the suffixes appended to its name, its
\* extension. The content of an image file is the page it shows: which run
\* captured it, which page, and how many edits (enhance, resize) it went through.
FilePath(dir, page, suffix, ext) ==
    [dir |-> dir, page |-> page, suffix |-> suffix, ext |-> ext]

Content(run, page) == [run |-> run, page |-> page, edits |-> 0]

\* open(path, "wb") ... write: the file exists afterwards with the new content
WriteFile(f, p, c) == [q \in DOMAIN f \cup {p} |-> IF q = p THEN c ELSE f[q]]

\* os.remove(path)
RemoveFile(f, p) == [q \in DOMAIN f \ {p} |-> f[q]]

Exists(f, p) == p \in DOMAIN f

\* ImageProcessor.supported_formats
ProcessorFormats == {".png", ".jpg", ".jpeg", ".bmp", ".tiff", ".gif"}

\* name, ext = os.path.splitext(image_path); f"{name}_enhanced{ext}"
EnhancedPath(p) == [p EXCEPT !.suffix = Append(@, "_enhanced")]

\* name, ext = os.path.splitext(image_path); f"{name}_resized{ext}"
ResizedPath(p) == [p EXCEPT !.suffix = Append(@, "_resized")]

EditOutcomes == {"ok", "error"}

\* ImageProcessor.enhance_image(image_path): [raises, fs, path]
enhance_image(f, p, out) ==
    IF ~Exists(f, p) \/ out = "error"
    THEN [raises |-> TRUE, fs |-> f, path |-> p]
    ELSE [raises |-> FALSE,
          fs |-> WriteFile(f, EnhancedPath(p), [f[p] EXCEPT !.edits = @ + 1]),
          path |-> EnhancedPath(p)]

OcrOutcomes == {"ok", "ocr_error", "remove_error"}

\* ImageProcessor.extract_text(image_path): enhance, OCR, then remove the
\* enhanced image (an OSError of the removal is swallowed): [raises, fs]
extract_text(f, p, eout, out) ==
    LET e == enhance_image(f, p, eout)
    IN  IF e.raises THEN [raises |-> TRUE, fs |-> f]
        ELSE IF out = "ocr_error" THEN [raises |-> TRUE, fs |-> e.fs]
        ELSE IF out = "remove_error" \/ e.path = p
        THEN [raises |-> FALSE, fs |-> e.fs]
        ELSE [raises |-> FALSE, fs |-> RemoveFile(e.fs, e.path)]

\* ImageProcessor.resize_image(image_path): [raises, fs, path]
resize_image(f, p, out) ==
    IF ~Exists(f, p) \/ out = "error"
    THEN [raises |-> TRUE, fs |-> f, path |-> p]
    ELSE [raises |-> FALSE,
          fs |-> WriteFile(f, ResizedPath(p), [f[p] EXCEPT !.edits = @ + 1]),
          path |-> ResizedPath(p)]

\* find_duplicates: the groups of more than one existing file with equal hash
find_duplicates(f, paths) ==
    LET group(p) == {q \in paths : Exists(f, q) /\ f[q] = f[p]}
    IN  {group(p) : p \in {q \in paths : Exists(f, q) /\ Cardinality(group(q)) > 1}}

\* Path(image_dir).glob(f"*{ext}") over the supported formats
Glob(f, dir) == {p \in DOMAIN f : p.dir = dir /\ p.ext \in ProcessorFormats}

\* the orders in which a directory listing can return the files of S
Orderings(S) ==
    {s \in [1 .. Cardinality(S) -> S] :
        \A i, j \in 1 .. Cardinality(S) : s[i] = s[j] => i = j}

Operations == {"enhance", "ocr", "resize", "deduplicate"}

\* a directory name is the sequence of the parts of its name
ImageDir == <<"captures">>

\* process_batch up to the loop: glob the directory, find duplicates
Batch_Start ==
    /\ pc = "pb_start"
    /\ \E order \in Orderings(Glob(fs, image_dir)) :
         /\ image_paths' = order
         /\ results' = [EmptyResults EXCEPT !.duplicates =
                            IF "deduplicate" \in operations
                            THEN find_duplicates(fs, Glob(fs, image_dir))
                            ELSE {}]
    /\ pc' = "pb_loop"
    /\ UNCHANGED <<sessionVars, toolVars, backend, powershell_available, page_count, delay_seconds,
                   win, win0, page_num, captured_files, stateBound, prepChanged,
                   original_window_state, error, outcome, result, raised,
                   response, log, navigation_key, host, environment, detected,
                   desktop, rect, files, temp_windows_path, wsl_temp_path,
                   fs, operations, dirs, fs0, dirs0, pdf, output_path,
                   sort_files, image_dir, capture_dir, process_images_flag,
                   processed_files, cleanup>>

\* one pass of the loop body: enhance, ocr, resize in one try; a failure skips
\* the rest of the body for this image
Batch_Image ==
    /\ pc = "pb_loop"
    /\ image_paths # <<>>
    /\ \E eo \in EditOutcomes, teo \in EditOutcomes, oo \in OcrOutcomes,
          ro \in EditOutcomes :
         LET p  == Head(image_paths)
             e  == enhance_image(fs, p, eo)
             doE == "enhance" \in operations
             f1 == IF doE THEN e.fs ELSE fs
             okE == ~doE \/ ~e.raises
             t  == extract_text(f1, p, teo, oo)
             doT == okE /\ "ocr" \in operations
             f2 == IF doT THEN t.fs ELSE f1
             okT == okE /\ (~doT \/ ~t.raises)
             r  == resize_image(f2, p, ro)
             doR == okT /\ "resize" \in operations
             f3 == IF doR THEN r.fs ELSE f2
         IN  /\ doE \/ eo = "ok"
             /\ doT \/ (teo = "ok" /\ oo = "ok")
             /\ doR \/ ro = "ok"
             /\ fs' = f3
             /\ results' =
                  [results EXCEPT
                     !.processed_files = Append(@, p),
                     !.enhanced_files =
                         IF doE /\ ~e.raises THEN Append(@, e.path) ELSE @,
                     !.ocr_results =
                         IF doT /\ ~t.raises THEN Append(@, p) ELSE @,
                     !.resized_files =
                         IF doR /\ ~r.raises THEN Append(@, r.path) ELSE @]
    /\ image_paths' = Tail(image_paths)
    /\ UNCHANGED <<sessionVars, toolVars, backend, powershell_available, page_count, delay_seconds,
                   win, win0, pc, page_num, captured_files, stateBound,
                   prepChanged, original_window_state, error, outcome, result,
                   raised, response, log, navigation_key, host, environment,
                   detected, desktop, rect, files, temp_windows_path,
                   wsl_temp_path, operations, dirs, fs0, dirs0, pdf,
                   output_path, sort_files, image_dir, capture_dir,
                   process_images_flag, processed_files, cleanup>>

\* return results
Batch_Return ==
    /\ pc = "pb_loop"
    /\ image_paths = <<>>
    /\ pc' = "pb_done"
    /\ UNCHANGED <<sessionVars, toolVars, backend, powershell_available, page_count, delay_seconds,
                   win, win0, page_num, captured_files, stateBound, prepChanged,
                   original_window_state, error, outcome, result, raised,
                   response, log, navigation_key, host, environment, detected,
                   desktop, rect, files, temp_windows_path, wsl_temp_path,
                   fs, operations, image_paths, results, dirs, fs0, dirs0,
                   pdf, output_path, sort_files, image_dir, capture_dir,
                   process_images_flag, processed_files, cleanup>>

\* the files a directory can hold before the batch: two pages, an enhanced
\* image left by an earlier batch, and a file that is not an image
BatchFiles ==
    {FilePath(ImageDir, 1, <<>>, ".png"),
     FilePath(ImageDir, 2, <<>>, ".png"),
     FilePath(ImageDir, 1, <<"_enhanced">>, ".png"),
     FilePath(ImageDir, 0, <<>>, ".txt")}

\* the content of a file left by an earlier run
Leftover(p) == [Content("old", p.page) EXCEPT !.edits = Len(p.suffix)]

\* no capture session and no window enumeration is part of the run
NoSession ==
    /\ backend = "win"
    /\ powershell_available = FALSE
    /\ page_count = 0
    /\ delay_seconds = 1
    /\ win = [vis |-> "normal", fg |-> FALSE, layered |-> FALSE]
    /\ win0 = win
    /\ page_num = 0
    /\ captured_files = <<>>
    /\ stateBound = FALSE
    /\ prepChanged = FALSE
    /\ original_window_state = EmptyState
    /\ error = "none"
    /\ outcome = "none"
    /\ result = <<>>
    /\ raised = "none"
    /\ response = NoResponse
    /\ log = <<>>
    /\ navigation_key = "Down"
    /\ rect = [ok |-> TRUE, width |-> 8, height |-> 8]
    /\ files = {}
    /\ temp_windows_path = NoPath
    /\ wsl_temp_path = NoPath
    /\ NoManager

BatchInit ==
    /\ NoSession
    /\ pc = "pb_start"
    /\ \E S \in SUBSET BatchFiles : fs = [p \in S |-> Leftover(p)]
    /\ operations \in SUBSET Operations
    /\ image_paths = <<>>
    /\ results = EmptyResults
    /\ dirs = {ImageDir}
    /\ fs0 = fs
    /\ dirs0 = dirs
    /\ pdf = <<>>
    /\ output_path = FilePath(<<>>, 0, <<>>, "")
    /\ sort_files = FALSE
    /\ image_dir = ImageDir
    /\ capture_dir = <<>>
    /\ process_images_flag = FALSE
    /\ processed_files = <<>>
    /\ cleanup = "none"
    /\ NoTool

BatchNext ==
    \/ Batch_Start
    \/ Batch_Image
    \/ Batch_Return

BatchSpec == BatchInit /\ [][BatchNext]_vars

BatchOver == pc = "pb_done"

\* C30: when process_batch returns, every path in 'enhanced_files' names a file
\* that exists on disk, for every combination of operations; in particular
\* running 'ocr' after 'enhance' on the same image does not delete the
\* enhanced file already reported.
C30_EnhancedFilesExist ==
    BatchOver =>
        \A i \in DOMAIN results.enhanced_files :
            Exists(fs, results.enhanced_files[i])

(* ------------------------------ images_to_pdf --------------------------- *)

\* PDFConverter.supported_formats
PdfFormats == {".png", ".jpg", ".jpeg", ".bmp", ".tiff"}

\* os.path.exists(path) and Path(path).suffix.lower() in supported_formats
ValidImage(f, p) == Exists(f, p) /\ p.ext \in PdfFormats

RECURSIVE ValidImages(_, _)
ValidImages(f, paths) ==
    IF paths = <<>> THEN <<>>
    ELSE (IF ValidImage(f, Head(paths)) THEN <<Head(paths)>> ELSE <<>>)
             \o ValidImages(f, Tail(paths))

\* the order of two name suffixes as strings: the end of the name ('.') sorts
\* before '_', and "_enhanced" before "_resized"
RECURSIVE SuffixLess(_, _)
SuffixLess(a, b) ==
    IF b = <<>> THEN FALSE
    ELSE IF a = <<>> THEN TRUE
    ELSE IF Head(a) = Head(b) THEN SuffixLess(Tail(a), Tail(b))
    ELSE Head(a) = "_enhanced"

\* the alphabetical order of the extensions
ExtRank(e) ==
    CASE e = ".bmp" -> 1 [] e = ".gif" -> 2 [] e = ".jpeg" -> 3 [] e = ".jpg" -> 4
      [] e = ".png" -> 5 [] e = ".tiff" -> 6 [] OTHER -> 7

\* a < b as path strings of one directory (page numbers are zero-padded)
PathLess(a, b) ==
    \/ a.page < b.page
    \/ a.page = b.page /\ SuffixLess(a.suffix, b.suffix)
    \/ a.page = b.page /\ a.suffix = b.suffix /\ ExtRank(a.ext) < ExtRank(b.ext)

\* insert p into the sorted sequence s, after the entries equal to it
RECURSIVE Insert(_, _)
Insert(s, p) ==
    IF s = <<>> THEN <<p>>
    ELSE IF PathLess(p, Head(s)) THEN <<p>> \o s
    ELSE <<Head(s)>> \o Insert(Tail(s), p)

\* valid_images.sort()
RECURSIVE Sort(_)
Sort(s) == IF s = <<>> THEN <<>> ELSE Insert(Sort(SubSeq(s, 1, Len(s) - 1)), s[Len(s)])

\* the pages img2pdf.convert makes of the images: one page per image, in order
RECURSIVE Convert(_, _)
Convert(f, paths) ==
    IF paths = <<>> THEN <<>>
    ELSE <<f[Head(paths)]>> \o Convert(f, Tail(paths))

\* the content of a PDF file on disk; its pages are kept in pdf
PdfFile == [run |-> "pdf", page |-> 0, edits |-> 0]

PdfOutcomes == {"ok", "makedirs_error", "open_error", "convert_error"}

\* PDFConverter.images_to_pdf(image_paths, output_path, sort_files):
\* [raises, error, fs, dirs, pdf, path]
images_to_pdf(f, d, paths, out_path, sorted, doc, out) ==
    LET valid   == ValidImages(f, paths)
        ordered == IF sorted THEN Sort(valid) ELSE valid
        withDir == IF out_path.dir # <<>> THEN d \cup {out_path.dir} ELSE d
        fail(e, f2, d2, doc2) ==
            [raises |-> TRUE, error |-> e, fs |-> f2, dirs |-> d2, pdf |-> doc2,
             path |-> out_path]
    IN  IF valid = <<>>
        THEN fail("No valid images found", f, d, doc)
        ELSE IF out = "makedirs_error" /\ out_path.dir # <<>> /\ out_path.dir \notin d
        THEN fail("OSError", f, d, doc)
        ELSE IF out = "open_error"
        THEN fail("OSError", f, withDir, doc)
        ELSE IF out = "convert_error"
        THEN \* open(output_path, "wb") has already created or truncated the file
             fail("ImageOpenError", WriteFile(f, out_path, PdfFile), withDir, <<>>)
        ELSE [raises |-> FALSE, error |-> "none",
              fs |-> WriteFile(f, out_path, PdfFile), dirs |-> withDir,
              pdf |-> Convert(f, ordered), path |-> out_path]

\* one call of images_to_pdf
Pdf_Convert ==
    /\ pc = "pdf_start"
    /\ \E out \in PdfOutcomes :
         LET r == images_to_pdf(fs, dirs, image_paths, output_path, sort_files,
                                pdf, out)
         IN  /\ fs' = r.fs
             /\ dirs' = r.dirs
             /\ pdf' = r.pdf
             /\ IF r.raises
                THEN /\ outcome' = "raised"
                     /\ raised' = IF r.error = "No valid images found"
                                  THEN "ValueError" ELSE r.error
                     /\ error' = r.error
                     /\ UNCHANGED result
                ELSE /\ outcome' = "returned"
                     /\ result' = <<r.path>>
                     /\ UNCHANGED <<raised, error>>
    /\ pc' = "pdf_done"
    /\ UNCHANGED <<sessionVars, toolVars, backend, powershell_available, page_count, delay_seconds,
                   win, win0, page_num, captured_files, stateBound, prepChanged,
                   original_window_state, response, log, navigation_key, host,
                   environment, detected, desktop, rect, files,
                   temp_windows_path, wsl_temp_path, operations, image_paths,
                   results, fs0, dirs0, output_path, sort_files, image_dir,
                   capture_dir, process_images_flag, processed_files, cleanup>>

MaxImages == 2

\* the paths a caller can pass: two pages, an enhanced page, a GIF, a text file
PdfInputs == BatchFiles \cup {FilePath(ImageDir, 2, <<>>, ".gif")}

\* the lists of at most MaxImages paths
ImageLists == UNION {[1 .. n -> PdfInputs] : n \in 0 .. MaxImages}

\* output paths with and without a directory component
OutputPaths == {FilePath(<<"pdfs">>, 9, <<>>, ".pdf"), FilePath(<<>>, 9, <<>>, ".pdf")}

PdfInit ==
    /\ NoSession
    /\ pc = "pdf_start"
    /\ \E S \in SUBSET PdfInputs : fs = [p \in S |-> Leftover(p)]
    /\ dirs = {ImageDir}
    /\ fs0 = fs
    /\ dirs0 = dirs
    /\ pdf = <<>>
    /\ image_paths \in ImageLists
    /\ output_path \in OutputPaths
    /\ sort_files \in BOOLEAN
    /\ operations = {}
    /\ results = EmptyResults
    /\ NoWorkflow

PdfNext == Pdf_Convert

PdfSpec == PdfInit /\ [][PdfNext]_vars

PdfOver == pc = "pdf_done"

NoValidImage == \A i \in DOMAIN image_paths : ~ValidImage(fs0, image_paths[i])

\* the output location could be written: no OSError from os.makedirs or open
OutputWritable == error # "OSError"

\* C22: images_to_pdf, given a list in which no path both exists and has a
\* supported format, fails with 'No valid images found' and leaves the
\* filesystem unchanged (no output file, no output directory created); given
\* at least one valid image (and a writable output location) it writes the
\* PDF and returns exactly the requested output path.
C22_ImagesToPdfAllOrNothing ==
    (PdfOver /\ OutputWritable) =>
        IF NoValidImage
        THEN /\ outcome = "raised"
             /\ raised = "ValueError"
             /\ error = "No valid images found"
             /\ fs = fs0
             /\ dirs = dirs0
        ELSE /\ outcome = "returned"
             /\ result = <<output_path>>
             /\ Exists(fs, output_path)
             /\ pdf # <<>>

(* ------------------------- full_document_workflow ----------------------- *)

\* f"{capture_dir}/page_{page_num:03d}.png"
PageFile(dir, n) == FilePath(dir, n, <<>>, ".png")

\* What capture_multiple_pages can do for page_count n: the pages it wrote
\* and whether it raised. WindowsWindowManager skips failed pages and returns
\* the others (or raises before the first page); WindowCapture returns all
\* pages or raises at the first failure, leaving the earlier pages on disk.
CaptureRuns(b, n) ==
    IF b = "win"
    THEN {[raises |-> FALSE, pages |-> S] : S \in SUBSET (1 .. n)}
             \cup {[raises |-> TRUE, pages |-> {}]}
    ELSE {[raises |-> FALSE, pages |-> 1 .. n]}
             \cup {[raises |-> TRUE, pages |-> 1 .. k] : k \in 0 .. (n - 1)}
             \cup {[raises |-> TRUE, pages |-> {}]}

\* the paths of the pages of S in page order
RECURSIVE PageFiles(_, _, _)
PageFiles(dir, S, n) ==
    IF n <= 0 THEN <<>>
    ELSE PageFiles(dir, S, n - 1)
             \o (IF n \in S THEN <<PageFile(dir, n)>> ELSE <<>>)

\* the disk after the pages of S were captured into dir
RECURSIVE WritePages(_, _, _, _)
WritePages(f, dir, S, n) ==
    IF n <= 0 THEN f
    ELSE LET g == WritePages(f, dir, S, n - 1)
         IN  IF n \in S THEN WriteFile(g, PageFile(dir, n), Content("new", n)) ELSE g

\* capture_dir.startswith("temp_")
StartsWithTemp(dir) == dir # <<>> /\ Head(dir) = "temp_"

\* shutil.rmtree(dir): the directory and everything in it
RmTree(f, dir) == [q \in {p \in DOMAIN f : p.dir # dir} |-> f[q]]

\* except Exception as e: return {"status": "error", ...}
WorkflowError ==
    /\ response' = [NoResponse EXCEPT !.status = "error"]
    /\ pc' = "wf_done"

\* Step 1: capture_multiple_pages into capture_dir
Workflow_Capture ==
    /\ pc = "wf_capture"
    /\ \E run \in CaptureRuns(backend, page_count) :
         /\ fs' = WritePages(fs, capture_dir, run.pages, page_count)
         /\ dirs' = IF run.raises /\ run.pages = {} THEN dirs
                    ELSE dirs \cup {capture_dir}
         /\ IF run.raises
            THEN /\ WorkflowError
                 /\ UNCHANGED <<captured_files, operations, image_dir>>
            ELSE /\ captured_files' = PageFiles(capture_dir, run.pages, page_count)
                 /\ IF process_images_flag
                    THEN \* ip.process_batch(capture_dir, ["enhance"])
                         /\ operations' = {"enhance"}
                         /\ image_dir' = capture_dir
                         /\ pc' = "pb_start"
                    ELSE /\ pc' = "wf_pdf"
                         /\ UNCHANGED <<operations, image_dir>>
                 /\ UNCHANGED response
    /\ UNCHANGED <<sessionVars, toolVars, backend, powershell_available, page_count, delay_seconds,
                   win, win0, page_num, stateBound, prepChanged,
                   original_window_state, error, outcome, result, raised, log,
                   navigation_key, host, environment, detected, desktop, rect,
                   files, temp_windows_path, wsl_temp_path, image_paths, results,
                   fs0, dirs0, pdf, output_path, sort_files, capture_dir,
                   process_images_flag, processed_files, cleanup>>

\* Step 2 (after process_batch) and Step 3: choose processed_files, convert
Workflow_Convert ==
    /\ pc \in {"pb_done", "wf_pdf"}
    /\ LET chosen == IF pc = "pb_done" /\ results.enhanced_files # <<>>
                     THEN results.enhanced_files
                     ELSE captured_files
       IN  /\ processed_files' = chosen
           /\ \E out \in PdfOutcomes :
                LET r == images_to_pdf(fs, dirs, chosen, output_path, TRUE, pdf, out)
                IN  /\ fs' = r.fs
                    /\ dirs' = r.dirs
                    /\ pdf' = r.pdf
                    /\ IF r.raises
                       THEN /\ WorkflowError
                            /\ error' = r.error
                       ELSE /\ pc' = "wf_cleanup"
                            /\ UNCHANGED <<response, error>>
    /\ UNCHANGED <<sessionVars, toolVars, backend, powershell_available, page_count, delay_seconds,
                   win, win0, page_num, captured_files, stateBound, prepChanged,
                   original_window_state, outcome, result, raised, log,
                   navigation_key, host, environment, detected, desktop, rect,
                   files, temp_windows_path, wsl_temp_path, operations,
                   image_paths, results, fs0, dirs0, output_path, sort_files,
                   image_dir, capture_dir, process_images_flag, cleanup>>

RmTreeOutcomes == {"ok", "error"}

\* Step 4: remove capture_dir when its name starts with "temp_", then return
Workflow_Cleanup ==
    /\ pc = "wf_cleanup"
    /\ IF StartsWithTemp(capture_dir)
       THEN \E out \in RmTreeOutcomes :
              IF out = "ok"
              THEN /\ fs' = RmTree(fs, capture_dir)
                   /\ dirs' = dirs \ {capture_dir}
                   /\ cleanup' = "ok"
              ELSE /\ cleanup' = "error"
                   /\ UNCHANGED <<fs, dirs>>
       ELSE /\ cleanup' = "skipped"
            /\ UNCHANGED <<fs, dirs>>
    /\ response' = [NoResponse EXCEPT !.status = "success",
                                      !.pages_captured = Len(captured_files)]
    /\ pc' = "wf_done"
    /\ UNCHANGED <<sessionVars, toolVars, backend, powershell_available, page_count, delay_seconds,
                   win, win0, page_num, captured_files, stateBound, prepChanged,
                   original_window_state, error, outcome, result, raised, log,
                   navigation_key, host, environment, detected, desktop, rect,
                   files, temp_windows_path, wsl_temp_path, operations,
                   image_paths, results, fs0, dirs0, pdf, output_path,
                   sort_files, image_dir, capture_dir, process_images_flag,
                   processed_files>>

\* the capture directories a caller can name: the default and a plain one
CaptureDirs == {<<"temp_", "captures">>, <<"captures">>}

WorkflowPageCounts == 0 .. 2

\* what an earlier run can have left in the capture directory: a page beyond
\* this run's page count and an enhanced page
PriorFiles(dir) == {FilePath(dir, 3, <<>>, ".png"), FilePath(dir, 1, <<"_enhanced">>, ".png")}

WorkflowInit ==
    /\ backend \in Backends
    /\ powershell_available = (backend = "win")
    /\ page_count \in WorkflowPageCounts
    /\ delay_seconds = 1
    /\ win = [vis |-> "normal", fg |-> FALSE, layered |-> FALSE]
    /\ win0 = win
    /\ page_num = 0
    /\ captured_files = <<>>
    /\ stateBound = FALSE
    /\ prepChanged = FALSE
    /\ original_window_state = EmptyState
    /\ error = "none"
    /\ outcome = "none"
    /\ result = <<>>
    /\ raised = "none"
    /\ response = NoResponse
    /\ log = <<>>
    /\ navigation_key = "Page_Down"
    /\ rect = [ok |-> TRUE, width |-> 8, height |-> 8]
    /\ files = {}
    /\ temp_windows_path = NoPath
    /\ wsl_temp_path = NoPath
    /\ NoManager
    /\ pc = "wf_capture"
    /\ capture_dir \in CaptureDirs
    /\ process_images_flag \in BOOLEAN
    /\ \E S \in SUBSET PriorFiles(capture_dir) : fs = [p \in S |-> Leftover(p)]
    /\ dirs = IF DOMAIN fs = {} THEN {} ELSE {capture_dir}
    /\ fs0 = fs
    /\ dirs0 = dirs
    /\ pdf = <<>>
    /\ output_path = FilePath(<<"pdfs">>, 9, <<>>, ".pdf")
    /\ sort_files = TRUE
    /\ operations = {}
    /\ image_dir = <<>>
    /\ image_paths = <<>>
    /\ results = EmptyResults
    /\ processed_files = <<>>
    /\ cleanup = "none"
    /\ NoTool

WorkflowNext ==
    \/ Workflow_Capture
    \/ Batch_Start
    \/ Batch_Image
    \/ Batch_Return
    \/ Workflow_Convert
    \/ Workflow_Cleanup

WorkflowSpec == WorkflowInit /\ [][WorkflowNext]_vars

WorkflowOver == pc = "wf_done"

\* the files that were in the capture directory before the call
PriorCaptureFiles == {p \in DOMAIN fs0 : p.dir = capture_dir}

\* the PDF step wrote the document
PdfWritten == Exists(fs, output_path) /\ pc \in {"wf_cleanup", "wf_done"} /\ error = "none"

\* C27: full_document_workflow deletes only files this run created: files
\* already present in the capture directory are still present afterwards; the
\* capture directory is removed only when its name starts with 'temp_' and
\* only after the PDF was written; a cleanup failure does not turn a
\* successful workflow into an error.
C27_CleanupDeletesOnlyOwnFiles ==
    /\ \A p \in PriorCaptureFiles : Exists(fs, p)
    /\ (capture_dir \in dirs0 /\ capture_dir \notin dirs)
           => (StartsWithTemp(capture_dir) /\ PdfWritten)
    /\ cleanup = "error" => response.status = "success"

\* C28: the PDF produced by full_document_workflow contains exactly the pages
\* captured in this run, one PDF page per captured page, in page-index order,
\* for every prior content of the capture directory and both values of
\* process_images_flag; images left by an earlier run never appear in it.
C28_PdfHoldsExactlyThisRunsPages ==
    (WorkflowOver /\ response.status = "success" /\ captured_files # <<>>) =>
        /\ Len(pdf) = Len(captured_files)
        /\ \A i \in DOMAIN pdf :
               /\ pdf[i].run = "new"
               /\ i <= Len(captured_files) => pdf[i].page = captured_files[i].page

(* ---------------------------- tool endpoints ---------------------------- *)

\* the tool endpoints of the server
Tools ==
    {"list_windows", "capture_window", "capture_full_screen",
     "capture_document_pages", "convert_to_pdf", "directory_to_pdf",
     "full_document_workflow", "check_system_dependencies",
     "debug_window_detection"}

\* the backend calls inside the try block of each endpoint, in order
ToolCalls(t) ==
    CASE t = "list_windows" ->
           <<"get_window_manager", "list_windows", "get_environment_info">>
      [] t = "capture_window" ->
           <<"get_window_manager", "capture_window", "stat">>
      [] t = "capture_full_screen" ->
           <<"get_window_manager", "capture_full_screen", "stat">>
      [] t = "capture_document_pages" ->
           <<"get_window_manager", "capture_multiple_pages", "getsize">>
      [] t = "convert_to_pdf" ->
           <<"validate_images_for_pdf", "images_to_pdf", "get_pdf_info">>
      [] t = "directory_to_pdf" ->
           <<"directory_to_pdf", "get_pdf_info">>
      [] t = "full_document_workflow" ->
           <<"get_window_manager", "capture_multiple_pages", "process_batch",
             "images_to_pdf", "get_pdf_info", "rmtree">>
      [] t = "check_system_dependencies" ->
           <<"check_dependencies", "check_tesseract">>
      [] t = "debug_window_detection" ->
           <<"get_window_manager", "get_environment_info",
             "debug_window_detection", "list_windows">>

\* the base class of each exception class
Base(e) ==
    CASE e \in {"CalledProcessError", "TimeoutExpired"} -> "SubprocessError"
      [] e = "FileNotFoundError" -> "OSError"
      [] e \in {"SubprocessError", "OSError", "ValueError"} -> "Exception"
      [] e = "Exception" -> "BaseException"
      [] OTHER -> "object"

\* issubclass(e, c)
RECURSIVE IsSubclass(_, _)
IsSubclass(e, c) ==
    \/ e = c
    \/ e \notin {"BaseException", "object"} /\ IsSubclass(Base(e), c)

\* what each backend call can raise; the calls that catch everything
\* themselves raise nothing
Raises(call) ==
    CASE call = "get_window_manager" -> {"Exception"}
      [] call = "list_windows" -> {"TimeoutExpired"}
      [] call = "capture_window" -> {"Exception", "TimeoutExpired", "FileNotFoundError"}
      [] call = "capture_full_screen" -> {"Exception"}
      [] call = "capture_multiple_pages" ->
           {"Exception", "TimeoutExpired", "ValueError", "OSError"}
      [] call \in {"stat", "getsize", "rmtree", "process_batch"} -> {"OSError"}
      [] call \in {"images_to_pdf", "directory_to_pdf"} -> {"ValueError", "OSError"}
      [] call = "debug_window_detection" -> {"Exception"}
      [] OTHER -> {}

\* the calls that report a degraded result by their return value: no valid
\* image, a missing dependency, Tesseract not available
Degrades(call) ==
    call \in {"validate_images_for_pdf", "check_dependencies", "check_tesseract"}

CallOutcomes(call) ==
    {"ok"} \cup Raises(call) \cup (IF Degrades(call) THEN {"degraded"} ELSE {})

\* a handler that catches only the failure of an external command
HandlerClass_CalledProcessError == "CalledProcessError"

\* except Exception as e:
HandlerClass == "Exception"

\* the except clause of the endpoint catches the exception
Catches(e) == IsSubclass(e, HandlerClass)

\* the keys of the JSON object of a successful call
SuccessKeys(t) ==
    CASE t = "list_windows" -> {"status", "windows", "count", "environment"}
      [] t = "capture_window" ->
           {"status", "window_id", "output_path", "file_exists", "file_size_mb"}
      [] t = "capture_full_screen" ->
           {"status", "output_path", "file_exists", "file_size_mb"}
      [] t = "capture_document_pages" ->
           {"status", "window_id", "pages_captured", "output_directory",
            "captured_files", "total_size_mb"}
      [] t = "convert_to_pdf" ->
           {"status", "input_images", "valid_images", "output_pdf", "pdf_info",
            "validation"}
      [] t = "directory_to_pdf" ->
           {"status", "input_directory", "pattern", "output_pdf", "pdf_info"}
      [] t = "full_document_workflow" ->
           {"status", "steps", "window_id", "pages_captured", "final_pdf", "pdf_info"}
      [] t = "check_system_dependencies" ->
           {"status", "dependencies", "missing_dependencies", "install_commands"}
      [] t = "debug_window_detection" ->
           {"status", "environment", "window_detection_debug",
            "current_window_list", "current_window_count"}

\* the keys of the JSON object the except clause returns
ErrorKeys(t) ==
    CASE t = "list_windows" -> {"status", "error", "windows", "count", "environment"}
      [] t = "capture_window" -> {"status", "error", "window_id", "output_path"}
      [] t = "capture_full_screen" -> {"status", "error", "output_path"}
      [] t = "capture_document_pages" ->
           {"status", "error", "window_id", "page_count", "captured_files"}
      [] t = "convert_to_pdf" -> {"status", "error", "input_images", "output_pdf"}
      [] t = "directory_to_pdf" ->
           {"status", "error", "input_directory", "output_pdf"}
      [] t = "full_document_workflow" ->
           {"status", "error", "window_id", "page_count", "output_pdf"}
      [] t = "check_system_dependencies" -> {"status", "error"}
      [] t = "debug_window_detection" -> {"status", "error", "environment"}

\* the call is skipped by the endpoint's own conditions
Skipped(t, call) ==
    /\ t = "full_document_workflow"
    /\ \/ call = "process_batch" /\ ~process_images_flag
       \/ call = "rmtree" /\ ~StartsWithTemp(capture_dir)

\* the call has a try block of its own inside the endpoint
OwnHandler(t, call) == t = "full_document_workflow" /\ call = "rmtree"

\* one backend call of the endpoint, with what the endpoint does on its outcome
Tool_Call ==
    /\ pc = "tool_run"
    /\ call_num <= Len(ToolCalls(tool))
    /\ LET call == ToolCalls(tool)[call_num]
       IN  \E out \in CallOutcomes(call) :
             /\ Skipped(tool, call) => out = "ok"
             /\ IF out \in {"ok", "degraded"} \/ OwnHandler(tool, call)
                THEN IF tool = "convert_to_pdf" /\ out = "degraded"
                     THEN \* if not validation["valid_images"]: return error
                          /\ reply' = [keys |-> {"status", "error", "validation"},
                                       status |-> "error"]
                          /\ pc' = "tool_done"
                          /\ UNCHANGED <<call_num, raised, error>>
                     ELSE /\ call_num' = call_num + 1
                          /\ error' = IF out = "degraded" THEN "degraded" ELSE error
                          /\ UNCHANGED <<reply, raised, pc>>
                ELSE IF Catches(out)
                     THEN /\ reply' = [keys |-> ErrorKeys(tool), status |-> "error"]
                          /\ error' = out
                          /\ pc' = "tool_done"
                          /\ UNCHANGED <<call_num, raised>>
                     ELSE \* the exception leaves the endpoint
                          /\ raised' = out
                          /\ error' = out
                          /\ pc' = "tool_done"
                          /\ UNCHANGED <<call_num, reply>>
    /\ UNCHANGED <<sessionVars, backend, powershell_available, page_count, delay_seconds,
                   win, win0, page_num, captured_files, stateBound, prepChanged,
                   original_window_state, outcome, result, response, log,
                   navigation_key, host, environment, detected, desktop, rect,
                   files, temp_windows_path, wsl_temp_path, fs, operations,
                   image_paths, results, dirs, fs0, dirs0, pdf, output_path,
                   sort_files, image_dir, capture_dir, process_images_flag,
                   processed_files, cleanup, tool>>

\* return json.dumps(result, indent=2) at the end of the try block
Tool_Return ==
    /\ pc = "tool_run"
    /\ call_num > Len(ToolCalls(tool))
    /\ reply' = [keys |-> SuccessKeys(tool)
                            \cup (IF tool = "check_system_dependencies"
                                     /\ error = "degraded"
                                  THEN {"message"} ELSE {}),
                 status |-> IF tool = "check_system_dependencies"
                               /\ error = "degraded"
                            THEN "warning" ELSE "success"]
    /\ pc' = "tool_done"
    /\ UNCHANGED <<sessionVars, backend, powershell_available, page_count, delay_seconds,
                   win, win0, page_num, captured_files, stateBound, prepChanged,
                   original_window_state, error, outcome, result, raised,
                   response, log, navigation_key, host, environment, detected,
                   desktop, rect, files, temp_windows_path, wsl_temp_path, fs,
                   operations, image_paths, results, dirs, fs0, dirs0, pdf,
                   output_path, sort_files, image_dir, capture_dir,
                   process_images_flag, processed_files, cleanup, tool, call_num>>

ToolInit ==
    /\ NoSession
    /\ fs = <<>>
    /\ operations = {}
    /\ image_paths = <<>>
    /\ results = EmptyResults
    /\ dirs = {}
    /\ fs0 = <<>>
    /\ dirs0 = {}
    /\ pdf = <<>>
    /\ output_path = FilePath(<<>>, 0, <<>>, "")
    /\ sort_files = FALSE
    /\ image_dir = <<>>
    /\ capture_dir \in CaptureDirs
    /\ process_images_flag \in BOOLEAN
    /\ processed_files = <<>>
    /\ cleanup = "none"
    /\ pc = "tool_run"
    /\ tool \in Tools
    /\ call_num = 1
    /\ reply = NoReply
    /\ NoSessions

ToolNext ==
    \/ Tool_Call
    \/ Tool_Return

ToolSpec == ToolInit /\ [][ToolNext]_vars

ToolOver == pc = "tool_done"

\* C21: every tool endpoint returns a JSON object with a 'status' field for
\* every outcome of the underlying backend and never lets a backend exception
\* propagate; a backend exception that reaches the endpoint yields status
\* 'error'.
C21_ToolsAlwaysReturnStatus ==
    ToolOver =>
        /\ raised = "none"
        /\ "status" \in reply.keys
        /\ reply.status \in {"success", "warning", "error"}
        /\ (error \notin {"none", "degraded"} /\ call_num <= Len(ToolCalls(tool)))
               => reply.status = "error"

C21_Witness ==
    /\ ToolOver
    /\ tool = "capture_document_pages"
    /\ error = "TimeoutExpired"
    /\ reply.status = "error"

(* ------------------------- concurrent sessions -------------------------- *)

\* two capture_multiple_pages calls of WindowsWindowManager, each on its own
\* window, sharing the desktop and the disk
Sessions == {1, 2}

\* what a session never assigns: the state of a call that runs alone
soloVars ==
    <<backend, powershell_available, page_count, delay_seconds, win, win0, pc,
      page_num, captured_files, stateBound, prepChanged, original_window_state,
      error, outcome, result, raised, response, log, navigation_key, host,
      environment, detected, desktop, rect, files, temp_windows_path,
      wsl_temp_path, fs, operations, image_paths, results, dirs, fs0, dirs0,
      pdf, output_path, sort_files, image_dir, capture_dir,
      process_images_flag, processed_files, cleanup, toolVars>>

\* the desktop has one foreground window: a window that becomes the
\* foreground window takes the foreground from the other session's window
WithWindow(S, i, w) ==
    [j \in Sessions |->
        IF j = i THEN [S[j] EXCEPT !.win = w]
        ELSE IF w.fg THEN [S[j] EXCEPT !.win.fg = FALSE]
        ELSE S[j]]

\* the output directories two callers can name: the default and another one
SessionDirs == {"captures", "other"}

SessionPageCounts == 1 .. 2

SessionPrepareOutcomes == {"ok", "error"}

SessionCaptureOutcomes == {"ok", "error_early"}

\* os.makedirs(output_dir, exist_ok=True)
Session_MakeDirs ==
    /\ \E i \in Sessions :
         /\ ses[i].pc = "start"
         /\ ses' = [ses EXCEPT ![i].pc = "prepare"]
    /\ UNCHANGED <<soloVars, page_files>>

\* original_window_state = self._detect_and_prepare_window_state(window_id)
Session_Prepare ==
    /\ \E i \in Sessions, out \in SessionPrepareOutcomes :
         LET r == DetectAndPrepareWindowState(ses[i].win, powershell_available, out)
         IN  /\ ses[i].pc = "prepare"
             /\ ses' = [WithWindow(ses, i, r.win) EXCEPT
                           ![i].state = r.state,
                           ![i].prep_out = out,
                           ![i].page_num = 1,
                           ![i].pc = "capture"]
    /\ UNCHANGED <<soloVars, page_files>>

\* one page: capture_window into output_dir/page_NNN.png in its own try; the
\* key and the delay that follow change neither the window nor the disk
Session_CapturePage ==
    /\ \E i \in Sessions, out \in SessionCaptureOutcomes :
         LET n    == ses[i].page_num
             path == PagePath(ses[i].output_dir, n)
             r    == Win_CaptureWindow(ses[i].win, powershell_available, n, out)
         IN  /\ ses[i].pc = "capture"
             /\ ses' = [WithWindow(ses, i, r.win) EXCEPT
                           ![i].captured = IF r.ok THEN Append(@, path) ELSE @,
                           ![i].page_num = n + 1,
                           ![i].pc = IF n + 1 <= page_count THEN "capture"
                                     ELSE "finish"]
             /\ page_files' =
                  IF r.ok
                  THEN [q \in DOMAIN page_files \cup {path} |->
                           IF q = path THEN i ELSE page_files[q]]
                  ELSE page_files
    /\ UNCHANGED soloVars

\* after the loop: restore the window when a state was recorded, then return
Session_Finish ==
    /\ \E i \in Sessions :
         LET r == RestoreWindowState(ses[i].win, powershell_available, ses[i].state, "ok")
         IN  /\ ses[i].pc = "finish"
             /\ ses' = [WithWindow(ses, i, r.win) EXCEPT
                           ![i].result = ses[i].captured,
                           ![i].pc = "done"]
    /\ UNCHANGED <<soloVars, page_files>>

\* the locals of a session that has not started, on window w
NewSession(w, dir) ==
    [pc |-> "start", page_num |-> 0, win |-> w, win0 |-> w, state |-> EmptyState,
     prep_out |-> "none", captured |-> <<>>, result |-> <<>>, output_dir |-> dir]

SessionInit ==
    /\ backend = "win"
    /\ powershell_available = TRUE
    /\ page_count \in SessionPageCounts
    /\ delay_seconds = 1
    /\ win = [vis |-> "normal", fg |-> FALSE, layered |-> FALSE]
    /\ win0 = win
    /\ page_num = 0
    /\ captured_files = <<>>
    /\ stateBound = FALSE
    /\ prepChanged = FALSE
    /\ original_window_state = EmptyState
    /\ error = "none"
    /\ outcome = "none"
    /\ result = <<>>
    /\ raised = "none"
    /\ response = NoResponse
    /\ log = <<>>
    /\ navigation_key = "Page_Down"
    /\ rect = [ok |-> TRUE, width |-> 8, height |-> 8]
    /\ files = {}
    /\ temp_windows_path = NoPath
    /\ wsl_temp_path = NoPath
    /\ NoManager
    /\ fs = <<>>
    /\ operations = {}
    /\ image_paths = <<>>
    /\ results = EmptyResults
    /\ dirs = {}
    /\ fs0 = <<>>
    /\ dirs0 = {}
    /\ pdf = <<>>
    /\ output_path = FilePath(<<>>, 0, <<>>, "")
    /\ sort_files = FALSE
    /\ image_dir = <<>>
    /\ capture_dir = <<>>
    /\ process_images_flag = FALSE
    /\ processed_files = <<>>
    /\ cleanup = "none"
    /\ tool = "none"
    /\ call_num = 0
    /\ reply = NoReply
    /\ pc = "sessions"
    /\ \E w1 \in Windows, w2 \in Windows, d1 \in SessionDirs, d2 \in SessionDirs :
         /\ ~(w1.fg /\ w2.fg)
         /\ ses = [i \in Sessions |->
                     IF i = 1 THEN NewSession(w1, d1) ELSE NewSession(w2, d2)]
    /\ page_files = <<>>

SessionNext ==
    \/ Session_MakeDirs
    \/ Session_Prepare
    \/ Session_CapturePage
    \/ Session_Finish

SessionSpec == SessionInit /\ [][SessionNext]_vars

SessionsOver == \A i \in Sessions : ses[i].pc = "done"

\* the visibility state the window of a session has at the end of the session
\* when the session runs alone with the same outcome of the preparation
AloneFinal(w0, prep_out) ==
    LET p == DetectAndPrepareWindowState(w0, TRUE, prep_out)
        r == RestoreWindowState(p.win, TRUE, p.state, "ok")
    IN  r.win

\* C26: two multi-page sessions on different windows running concurrently,
\* with any interleaving, each return their own page list and leave their own
\* window in the same final visibility state as when run alone; they do not
\* overwrite each other's page files: every page file a session returns was
\* written by that session.
C26_ConcurrentSessionsIndependent ==
    SessionsOver =>
        \A i \in Sessions :
            /\ ses[i].result = ses[i].captured
            /\ ses[i].win.vis = AloneFinal(ses[i].win0, ses[i].prep_out).vis
            /\ ses[i].win.layered = AloneFinal(ses[i].win0, ses[i].prep_out).layered
            /\ \A k \in DOMAIN ses[i].result : page_files[ses[i].result[k]] = i

====
